---- MODULE Spec2Model ----
(***************************************************************************)
(* Lifecycle controller of the Kubeflow orchestrator                       *)
(* (zenml/integrations/kubeflow/orchestrators/kubeflow_orchestrator.py).   *)
(*                                                                         *)
(* The orchestrator object holds no deployment state of its own: every     *)
(* probe reads the external backend (k3d cluster, UI daemon, files of the  *)
(* orchestrator's root directory).  The model keeps that external state in *)
(* variables, runs each lifecycle operation as one atomic action, and      *)
(* records every operation with the driver calls it issued in `trace`.     *)
(***************************************************************************)
EXTENDS Integers, Sequences, FiniteSets, TLC

\* ------------------------------------------------------------------ bounds
\* number of lifecycle operations recorded in one behaviour
MaxOps == 3
\* number of local ports the model distinguishes (the default port and up)
NumPorts == 2

\* ------------------------------------------------------- program constants
DEFAULT_KFP_UI_PORT == 8080

\* the local ports of the model: the default UI port and the ones after it
Ports == DEFAULT_KFP_UI_PORT .. (DEFAULT_KFP_UI_PORT + NumPorts - 1)

\* calls into local_deployment_utils that change the backend; each may raise
DriverCalls ==
    { "write_local_registry_yaml", "create_k3d_cluster",
      "deploy_kubeflow_pipelines", "add_hostpath_to_kubeflow_pipelines",
      "delete_k3d_cluster", "start_k3d_cluster",
      "wait_until_kubeflow_pipelines_ready", "stop_k3d_cluster",
      "start_kfp_ui_daemon", "stop_kfp_ui_daemon" }

\* the driver calls an operation can reach; any subset of them may raise
\* while the operation runs
Reachable(op) ==
    CASE op = "provision" ->
           { "write_local_registry_yaml", "create_k3d_cluster",
             "deploy_kubeflow_pipelines", "add_hostpath_to_kubeflow_pipelines",
             "stop_kfp_ui_daemon", "delete_k3d_cluster" }
      [] op = "deprovision" -> { "stop_kfp_ui_daemon", "delete_k3d_cluster" }
      [] op = "resume" ->
           { "start_k3d_cluster", "wait_until_kubeflow_pipelines_ready",
             "start_kfp_ui_daemon" }
      [] op = "suspend" -> { "stop_kfp_ui_daemon", "stop_k3d_cluster" }

FaultSets(op) == SUBSET Reachable(op)

\* the sets of ports other processes may hold: some port is always free
Occupations == (SUBSET Ports) \ { Ports }

VARIABLES
    \* configuration of the orchestrator and its environment (never changed
    \* by a lifecycle operation)
    isLocal,            \* kubernetes_context is the k3d context of the uuid
    win32,              \* sys.platform == "win32"
    prereq,             \* k3d and kubectl are installed
    artifactStoreLocal, \* the stack's artifact store is a LocalArtifactStore
    uiPort,             \* kubeflow_pipelines_ui_port
    \* external deployment state
    clusterExists,      \* a k3d cluster named after the uuid exists
    clusterRunning,     \* ... and its nodes are running
    kfpDeployed,        \* Kubeflow Pipelines is deployed in the cluster
    mounted,            \* the artifact store path is mounted in the cluster
    daemonAlive,        \* the UI daemon of the PID file is alive
    daemonPort,         \* the port the daemon forwards: {p}, or {} if none
    rootDir,            \* root_directory exists
    registryYaml,       \* k3d_registry.yaml exists
    logFile,            \* kubeflow_daemon.log exists
    \* the operations executed so far, oldest first
    trace,
    \* image preparation: the active stack's optional components and the
    \* prepare_pipeline_deployment() calls made so far
    prep,
    \* stack validation: the components of the stack under validation and
    \* the validations made so far
    stack,
    \* configuration resolver: the specification document given to
    \* run_pipeline() and what the call did
    res,
    \* run submission: the orchestrator's `synchronous` setting, what the
    \* Kubeflow Pipelines backend holds and the submissions made so far
    sub,
    \* concurrent callers of resume(): whether they are serialized by their
    \* caller, where each of them is in resume() and the driver calls issued
    conc,
    \* GCP secrets manager: the secrets of the project and the operations
    \* executed so far
    gcp

config == << isLocal, win32, prereq, artifactStoreLocal, uiPort >>
backend == << clusterExists, clusterRunning, kfpDeployed, mounted,
              daemonAlive, daemonPort, rootDir, registryYaml, logFile >>
vars == << config, backend, trace, prep, stack, res, sub, conc, gcp >>

\* the external deployment state as one value
Cur ==
    [ clusterExists |-> clusterExists, clusterRunning |-> clusterRunning,
      kfpDeployed |-> kfpDeployed, mounted |-> mounted,
      daemonAlive |-> daemonAlive, daemonPort |-> daemonPort,
      rootDir |-> rootDir, registryYaml |-> registryYaml,
      logFile |-> logFile ]

\* nothing deployed, no file written
Fresh ==
    [ clusterExists |-> FALSE, clusterRunning |-> FALSE,
      kfpDeployed |-> FALSE, mounted |-> FALSE,
      daemonAlive |-> FALSE, daemonPort |-> {},
      rootDir |-> FALSE, registryYaml |-> FALSE, logFile |-> FALSE ]

\* ------------------------------------------------------------ status probes
check_prerequisites == prereq

k3d_cluster_exists(s) == s.clusterExists

k3d_cluster_running(s) == s.clusterRunning

check_if_daemon_is_running(s) == s.daemonAlive

is_local == isLocal

is_cluster_provisioned(s) ==
    IF ~is_local THEN TRUE ELSE k3d_cluster_exists(s)

\* is_provisioned that does not test for the prerequisites
is_provisioned_unchecked(s) == is_cluster_provisioned(s)

is_provisioned(s) ==
    IF ~check_prerequisites THEN FALSE ELSE is_cluster_provisioned(s)

is_cluster_running(s) ==
    IF ~is_local THEN TRUE ELSE k3d_cluster_running(s)

is_daemon_running(s) ==
    IF ~win32 THEN check_if_daemon_is_running(s) ELSE TRUE

is_running(s) ==
    is_provisioned(s) /\ is_cluster_running(s) /\ is_daemon_running(s)

\* is_suspended that looks at the daemon only
is_suspended_daemon_only(s) == is_provisioned(s) /\ ~is_daemon_running(s)

is_suspended(s) ==
    is_provisioned(s) /\ ~is_cluster_running(s) /\ ~is_daemon_running(s)

\* The driver probes a status probe consults when it is evaluated in state s
\* (`and` stops at its first false operand).
consulted_is_cluster_provisioned(s) ==
    IF ~is_local THEN {} ELSE { "k3d_cluster_exists" }

consulted_is_provisioned(s) ==
    IF ~check_prerequisites THEN { "check_prerequisites" }
    ELSE { "check_prerequisites" } \cup consulted_is_cluster_provisioned(s)

consulted_is_cluster_running(s) ==
    IF ~is_local THEN {} ELSE { "k3d_cluster_running" }

consulted_is_daemon_running(s) ==
    IF ~win32 THEN { "check_if_daemon_is_running" } ELSE {}

consulted_is_running(s) ==
    consulted_is_provisioned(s)
    \cup (IF is_provisioned(s)
          THEN consulted_is_cluster_running(s)
               \cup (IF is_cluster_running(s)
                     THEN consulted_is_daemon_running(s) ELSE {})
          ELSE {})

consulted_is_suspended(s) ==
    consulted_is_provisioned(s)
    \cup (IF is_provisioned(s)
          THEN consulted_is_cluster_running(s)
               \cup (IF ~is_cluster_running(s)
                     THEN consulted_is_daemon_running(s) ELSE {})
          ELSE {})

\* ------------------------------------------------------------- driver calls
\* An execution x of an operation: the deployment state reached so far, the
\* calls issued, the calls that raised, the exception in flight ("none"
\* while running normally), whether provision() has started its rollback,
\* and the port handed to the UI daemon.
Start(s) ==
    [ st |-> s, calls |-> << >>, failed |-> {}, exc |-> "none",
      rollback |-> FALSE, port |-> {} ]

\* issue call `name`: skipped when an exception is in flight; raises when
\* `ok` is false, and has effect `eff` on the deployment state otherwise
Call(x, name, ok, eff) ==
    IF x.exc # "none" THEN x
    ELSE IF ~ok
         THEN [ x EXCEPT !.calls = Append(@, name),
                         !.failed = @ \cup { name },
                         !.exc = "DriverError" ]
         ELSE [ x EXCEPT !.calls = Append(@, name), !.st = eff ]

Raise(x, e) == IF x.exc # "none" THEN x ELSE [ x EXCEPT !.exc = e ]

\* occ: the ports other processes hold while the operation runs
port_available(s, occ, p) == p \notin occ /\ p \notin s.daemonPort

\* the ports find_available_port() can return: any port that is available
\* (when the call is not made the configured port stands in for its result)
find_available_port(s, occ) ==
    IF uiPort = DEFAULT_KFP_UI_PORT /\ ~port_available(s, occ, uiPort)
    THEN { p \in Ports : port_available(s, occ, p) }
    ELSE { uiPort }

makedirs(x) ==
    Call(x, "makedirs", TRUE, [ x.st EXCEPT !.rootDir = TRUE ])

remove_log_file(x) ==
    Call(x, "remove_log_file", TRUE, [ x.st EXCEPT !.logFile = FALSE ])

write_local_registry_yaml(x, F) ==
    Call(x, "write_local_registry_yaml", "write_local_registry_yaml" \notin F,
         [ x.st EXCEPT !.registryYaml = TRUE ])

create_k3d_cluster(x, F) ==
    Call(x, "create_k3d_cluster", "create_k3d_cluster" \notin F,
         [ x.st EXCEPT !.clusterExists = TRUE, !.clusterRunning = TRUE ])

deploy_kubeflow_pipelines(x, F) ==
    Call(x, "deploy_kubeflow_pipelines", "deploy_kubeflow_pipelines" \notin F,
         [ x.st EXCEPT !.kfpDeployed = TRUE ])

add_hostpath_to_kubeflow_pipelines(x, F) ==
    Call(x, "add_hostpath_to_kubeflow_pipelines",
         "add_hostpath_to_kubeflow_pipelines" \notin F,
         [ x.st EXCEPT !.mounted = TRUE ])

delete_k3d_cluster(x, F) ==
    Call(x, "delete_k3d_cluster", "delete_k3d_cluster" \notin F,
         [ x.st EXCEPT !.clusterExists = FALSE, !.clusterRunning = FALSE,
                       !.kfpDeployed = FALSE, !.mounted = FALSE ])

start_k3d_cluster(x, F) ==
    Call(x, "start_k3d_cluster", "start_k3d_cluster" \notin F,
         [ x.st EXCEPT !.clusterRunning = TRUE ])

wait_until_kubeflow_pipelines_ready(x, F) ==
    Call(x, "wait_until_kubeflow_pipelines_ready",
         "wait_until_kubeflow_pipelines_ready" \notin F, x.st)

stop_k3d_cluster(x, F) ==
    Call(x, "stop_k3d_cluster", "stop_k3d_cluster" \notin F,
         [ x.st EXCEPT !.clusterRunning = FALSE ])

\* the daemon cannot bind a port that is not available
start_kfp_ui_daemon(x, F, occ, port) ==
    Call([ x EXCEPT !.port = IF x.exc = "none" THEN { port } ELSE @ ],
         "start_kfp_ui_daemon",
         "start_kfp_ui_daemon" \notin F /\ port_available(x.st, occ, port),
         [ x.st EXCEPT !.daemonAlive = TRUE, !.daemonPort = { port },
                       !.logFile = TRUE ])

stop_kfp_ui_daemon(x, F) ==
    Call(x, "stop_kfp_ui_daemon", "stop_kfp_ui_daemon" \notin F,
         [ x.st EXCEPT !.daemonAlive = FALSE, !.daemonPort = {} ])

\* ------------------------------------------------------ lifecycle operations
\* _get_kfp_ui_daemon_port without the fallback to a free port
get_kfp_ui_daemon_port_no_fallback(s, occ, free) == uiPort

\* _get_kfp_ui_daemon_port; `free` is what find_available_port() returns
get_kfp_ui_daemon_port(s, occ, free) ==
    IF uiPort = DEFAULT_KFP_UI_PORT /\ ~port_available(s, occ, uiPort)
    THEN free
    ELSE uiPort

\* deprovision() that deletes the cluster of a remote installation too
deprovision_any_backend(x, F) ==
    LET a == IF is_daemon_running(x.st) THEN stop_kfp_ui_daemon(x, F) ELSE x
        b == delete_k3d_cluster(a, F)
    IN  IF b.st.logFile THEN remove_log_file(b) ELSE b

\* deprovision() that never deletes the cluster
deprovision_keep_cluster(x, F) ==
    LET a == IF is_daemon_running(x.st) THEN stop_kfp_ui_daemon(x, F) ELSE x
    IN  IF a.st.logFile THEN remove_log_file(a) ELSE a

\* deprovision() that leaves the daemon alone
deprovision_keep_daemon(x, F) ==
    LET b == IF is_local THEN delete_k3d_cluster(x, F) ELSE x
    IN  IF b.st.logFile THEN remove_log_file(b) ELSE b

deprovision(x, F) ==
    LET a == IF is_daemon_running(x.st) THEN stop_kfp_ui_daemon(x, F) ELSE x
        b == IF is_local THEN delete_k3d_cluster(a, F) ELSE a
    IN  IF b.st.logFile THEN remove_log_file(b) ELSE b

\* the statements of provision() inside its try block
\* the try block with the mount before the cluster creation, whatever the
\* artifact store
provision_try_mount_first(x, F) ==
    LET a == add_hostpath_to_kubeflow_pipelines(x, F)
        b == create_k3d_cluster(a, F)
    IN  deploy_kubeflow_pipelines(b, F)

provision_try(x, F) ==
    LET a == create_k3d_cluster(x, F)
        b == deploy_kubeflow_pipelines(a, F)
    IN  IF artifactStoreLocal
        THEN add_hostpath_to_kubeflow_pipelines(b, F)
        ELSE b

\* provision_local() that stops after writing the registry config
provision_local_registry_only(x, F) == write_local_registry_yaml(x, F)

\* provision_local() that lets the exception of its try block propagate
provision_local_no_rollback(x, F) ==
    provision_try(write_local_registry_yaml(x, F), F)

\* provision() from the registry config on: a failure of the try block is
\* caught, rolled back by deprovision() and not raised again
provision_local(x, F) ==
    LET a == write_local_registry_yaml(x, F)
        b == provision_try(a, F)
    IN  IF a.exc = "none" /\ b.exc # "none"
        THEN deprovision([ b EXCEPT !.exc = "none", !.rollback = TRUE ], F)
        ELSE b

\* provision_not_running() that creates the directory before the check
provision_makedirs_first(x, F) ==
    LET a == makedirs(x)
    IN  IF ~check_prerequisites THEN Raise(a, "ProvisioningError")
        ELSE IF ~is_local THEN a
        ELSE provision_local(a, F)

\* provision_not_running() that provisions a remote installation too
provision_remote_as_local(x, F) ==
    IF ~check_prerequisites THEN Raise(x, "ProvisioningError")
    ELSE provision_local(makedirs(x), F)

\* provision() after its is_running check
provision_not_running(x, F) ==
    IF ~check_prerequisites THEN Raise(x, "ProvisioningError")
    ELSE LET a == makedirs(x)
         IN  IF ~is_local THEN a
             ELSE provision_local(a, F)

\* provision() without its is_running check
provision_unchecked(x, F) == provision_not_running(x, F)

provision(x, F) ==
    IF is_running(x.st) THEN x
    ELSE provision_not_running(x, F)

\* resume_provisioned() that starts the cluster whether it runs or not
resume_provisioned_restart(x, F, occ, free) ==
    LET a == IF is_local
             THEN wait_until_kubeflow_pipelines_ready(
                      start_k3d_cluster(x, F), F)
             ELSE x
    IN  IF a.exc = "none" /\ ~is_daemon_running(a.st)
        THEN start_kfp_ui_daemon(a, F, occ,
                                 get_kfp_ui_daemon_port(a.st, occ, free))
        ELSE a

\* resume() after its is_running and is_provisioned checks
resume_provisioned(x, F, occ, free) ==
    LET a == IF is_local /\ ~is_cluster_running(x.st)
             THEN wait_until_kubeflow_pipelines_ready(
                      start_k3d_cluster(x, F), F)
             ELSE x
    IN  IF a.exc = "none" /\ ~is_daemon_running(a.st)
        THEN start_kfp_ui_daemon(a, F, occ,
                                 get_kfp_ui_daemon_port(a.st, occ, free))
        ELSE a

\* resume() without its is_provisioned check
resume_unchecked(x, F, occ, free) ==
    IF is_running(x.st) THEN x
    ELSE resume_provisioned(x, F, occ, free)

resume(x, F, occ, free) ==
    IF is_running(x.st) THEN x
    ELSE IF ~is_provisioned(x.st) THEN Raise(x, "ProvisioningError")
    ELSE resume_provisioned(x, F, occ, free)

\* suspend() that stops the daemon and leaves the cluster alone
suspend_daemon_only(x, F) ==
    IF ~is_provisioned(x.st) THEN x
    ELSE IF is_daemon_running(x.st) THEN stop_kfp_ui_daemon(x, F) ELSE x

\* suspend() without its is_provisioned check
suspend_unchecked(x, F) ==
    LET a == IF is_daemon_running(x.st) THEN stop_kfp_ui_daemon(x, F) ELSE x
    IN  IF a.exc = "none" /\ is_local /\ is_cluster_running(a.st)
        THEN stop_k3d_cluster(a, F)
        ELSE a

suspend(x, F) ==
    IF ~is_provisioned(x.st) THEN x
    ELSE LET a == IF is_daemon_running(x.st) THEN stop_kfp_ui_daemon(x, F)
                  ELSE x
         IN  IF a.exc = "none" /\ is_local /\ is_cluster_running(a.st)
             THEN stop_k3d_cluster(a, F)
             ELSE a

\* ------------------------------------------------------------------ actions
\* a stack with a container registry and no secrets manager, nothing prepared
PrepIdle ==
    [ secrets_manager |-> FALSE, container_registry |-> TRUE, runs |-> << >> ]

\* a stack without local components, nothing validated
StackIdle ==
    [ local_path |-> [ c \in { "metadata_store", "artifact_store" } |-> "None" ],
      orchestrator_is_local |-> TRUE, registry_is_local |-> TRUE,
      log |-> << >> ]

\* no exception message
NoMessage == [ kind |-> "", keys |-> {}, file |-> "" ]

\* an empty document on which run_pipeline() has not been called
ResIdle ==
    [ doc |-> [ name |-> {}, steps |-> {} ], done |-> FALSE,
      events |-> << >>, exc |-> "none", msg |-> NoMessage,
      instances |-> << >> ]

\* an asynchronous orchestrator, an empty backend, nothing submitted
SubIdle ==
    [ synchronous |-> FALSE, experiment |-> FALSE, recurring |-> {},
      oneoff |-> {}, log |-> << >> ]

\* no caller of resume() besides the one of the lifecycle operations
ConcIdle == [ serialized |-> TRUE, pc |-> << >>, issued |-> << >> ]

\* an empty project on which no secrets operation is executed
GcpIdle == [ store |-> {}, log |-> << >> ]

\* the deployment state becomes x.st and the operation is recorded, with the
\* ports other processes held if the operation consulted them
Record(op, occ, x) ==
    /\ clusterExists' = x.st.clusterExists
    /\ clusterRunning' = x.st.clusterRunning
    /\ kfpDeployed' = x.st.kfpDeployed
    /\ mounted' = x.st.mounted
    /\ daemonAlive' = x.st.daemonAlive
    /\ daemonPort' = x.st.daemonPort
    /\ rootDir' = x.st.rootDir
    /\ registryYaml' = x.st.registryYaml
    /\ logFile' = x.st.logFile
    /\ trace' = Append(trace, [ op |-> op, before |-> Cur, after |-> x.st,
                                calls |-> x.calls, exc |-> x.exc,
                                failed |-> x.failed,
                                rollback |-> x.rollback, port |-> x.port,
                                occupied |-> IF x.port = {} THEN {}
                                             ELSE occ ])
    /\ UNCHANGED << config, prep, stack, res, sub, conc, gcp >>

Init ==
    /\ isLocal \in BOOLEAN
    /\ win32 \in BOOLEAN
    /\ prereq \in BOOLEAN
    /\ artifactStoreLocal \in BOOLEAN
    /\ uiPort \in Ports
    /\ clusterExists = Fresh.clusterExists
    /\ clusterRunning = Fresh.clusterRunning
    /\ kfpDeployed = Fresh.kfpDeployed
    /\ mounted = Fresh.mounted
    /\ daemonAlive = Fresh.daemonAlive
    /\ daemonPort = Fresh.daemonPort
    /\ rootDir = Fresh.rootDir
    /\ registryYaml = Fresh.registryYaml
    /\ logFile = Fresh.logFile
    /\ trace = << >>
    /\ prep = PrepIdle
    /\ stack = StackIdle
    /\ res = ResIdle
    /\ sub = SubIdle
    /\ conc = ConcIdle
    /\ gcp = GcpIdle

Provision ==
    /\ Len(trace) < MaxOps
    /\ \E F \in FaultSets("provision") :
          Record("provision", {}, provision(Start(Cur), F))

Deprovision ==
    /\ Len(trace) < MaxOps
    /\ \E F \in FaultSets("deprovision") :
          Record("deprovision", {}, deprovision(Start(Cur), F))

Resume ==
    /\ Len(trace) < MaxOps
    /\ \E F \in FaultSets("resume"), occ \in Occupations :
         \E free \in find_available_port(Cur, occ) :
            Record("resume", occ, resume(Start(Cur), F, occ, free))

Suspend ==
    /\ Len(trace) < MaxOps
    /\ \E F \in FaultSets("suspend") :
          Record("suspend", {}, suspend(Start(Cur), F))

Next == Provision \/ Deprovision \/ Resume \/ Suspend

Spec == Init /\ [][Next]_vars

\* a local orchestrator on a fresh machine on which no lifecycle operation
\* is executed
LifecycleIdle ==
    /\ isLocal = TRUE
    /\ win32 = FALSE
    /\ prereq = TRUE
    /\ artifactStoreLocal = TRUE
    /\ uiPort = DEFAULT_KFP_UI_PORT
    /\ clusterExists = Fresh.clusterExists
    /\ clusterRunning = Fresh.clusterRunning
    /\ kfpDeployed = Fresh.kfpDeployed
    /\ mounted = Fresh.mounted
    /\ daemonAlive = Fresh.daemonAlive
    /\ daemonPort = Fresh.daemonPort
    /\ rootDir = Fresh.rootDir
    /\ registryYaml = Fresh.registryYaml
    /\ logFile = Fresh.logFile
    /\ trace = << >>

\* ------------------------------------------------- image preparation
\* prepare_pipeline_deployment(): the secrets a pipeline requests become
\* environment variables of the image that is built and pushed.

MaxSecrets == 2
MaxPrepares == 2

SecretNames == { "aws", "db" }

\* pipeline.secrets
SecretLists == UNION { [ 1 .. n -> SecretNames ] : n \in 0 .. MaxSecrets }

\* secret_manager.get_secret(name).content, as a set of <<key, value>>
secret_content(name) ==
    IF name = "aws"
    THEN { << "KEY", "aws" >>, << "TOKEN", "aws" >> }
    ELSE { << "TOKEN", "db" >> }

\* dict.update
dict_update(d, other) ==
    { kv \in d : \A o \in other : o[1] # kv[1] } \cup other

dict_keys(d) == { kv[1] : kv \in d }

PrepStart == [ calls |-> << >>, exc |-> "none", env |-> {} ]

\* the loop over the requested secrets, from the i-th on
RECURSIVE get_secrets(_, _, _)
get_secrets(y, secrets, i) ==
    IF i > Len(secrets) THEN y
    ELSE get_secrets(
             [ y EXCEPT !.calls = Append(@, "get_secret"),
                        !.env = dict_update(@, secret_content(secrets[i])) ],
             secrets, i + 1)

\* _get_environment_vars_from_secrets that skips the secrets when the stack
\* has no secrets manager
get_environment_vars_from_secrets_skip(st, secrets) ==
    IF secrets # << >> /\ st.secrets_manager
    THEN get_secrets(PrepStart, secrets, 1)
    ELSE PrepStart

get_environment_vars_from_secrets(st, secrets) ==
    IF secrets # << >> /\ st.secrets_manager
    THEN get_secrets(PrepStart, secrets, 1)
    ELSE IF secrets # << >> /\ ~st.secrets_manager
    THEN [ PrepStart EXCEPT !.exc = "ProvisioningError" ]
    ELSE PrepStart

\* the environment variables are computed as an argument of the build call
prepare_pipeline_deployment(st, secrets) ==
    LET a == get_environment_vars_from_secrets(st, secrets)
        b == IF a.exc = "none"
             THEN [ a EXCEPT !.calls = Append(@, "build_docker_image") ]
             ELSE a
    IN  IF b.exc = "none" /\ st.container_registry
        THEN [ b EXCEPT !.calls = Append(@, "push_docker_image") ]
        ELSE b

Prepare ==
    /\ Len(prep.runs) < MaxPrepares
    /\ \E secrets \in SecretLists :
          LET y == prepare_pipeline_deployment(prep, secrets)
          IN  prep' = [ prep EXCEPT !.runs =
                          Append(@, [ secrets |-> secrets, calls |-> y.calls,
                                      exc |-> y.exc, env |-> y.env ]) ]
    /\ UNCHANGED << config, backend, trace, stack, res, sub, conc, gcp >>

InitPrepare ==
    /\ LifecycleIdle
    /\ prep \in [ secrets_manager : BOOLEAN, container_registry : BOOLEAN,
                   runs : { << >> } ]
    /\ stack = StackIdle
    /\ res = ResIdle
    /\ sub = SubIdle
    /\ conc = ConcIdle
    /\ gcp = GcpIdle

NextPrepare == Prepare

SpecPrepare == InitPrepare /\ [][NextPrepare]_vars

\* ------------------------------------------------- stack validation
\* The validator's _validate_local_requirements(stack), applied to stacks
\* that are edited between validations.

MaxEdits == 2

\* the components besides the orchestrator and the container registry, in
\* the order stack.components lists them
ComponentOrder == << "metadata_store", "artifact_store", "secrets_manager" >>

ComponentTypes == { ComponentOrder[i] : i \in DOMAIN ComponentOrder }

\* StackComponent.local_path: None, an empty string or a path
LocalPaths == { "None", "", "/local" }

\* `not local_path` that takes an empty path for a local one
not_local_path_none_only(p) == p = "None"

\* `not local_path`
not_local_path(p) == p \in { "None", "" }

\* the first component of stack.components.values() the loop does not skip,
\* as a set: empty if the loop ends without one
first_local_component(st) ==
    LET idx == { i \in DOMAIN ComponentOrder :
                    /\ ComponentOrder[i] \in DOMAIN st.local_path
                    /\ ~not_local_path(st.local_path[ComponentOrder[i]]) }
    IN  { ComponentOrder[i] : i \in { j \in idx : \A k \in idx : j <= k } }

ValidationOk == [ ok |-> TRUE, reason |-> "", named |-> {} ]

ValidationFailure(reason, named) ==
    [ ok |-> FALSE, reason |-> reason, named |-> named ]

\* _validate_local_requirements that accepts any registry under a local
\* orchestrator
validate_local_requirements_any_registry(st) ==
    IF ~st.orchestrator_is_local
    THEN IF first_local_component(st) # {}
         THEN ValidationFailure("local_component", first_local_component(st))
         ELSE IF st.registry_is_local
         THEN ValidationFailure("local_registry", { "container_registry" })
         ELSE ValidationOk
    ELSE ValidationOk

validate_local_requirements(st) ==
    IF ~st.orchestrator_is_local
    THEN IF first_local_component(st) # {}
         THEN ValidationFailure("local_component", first_local_component(st))
         ELSE IF st.registry_is_local
         THEN ValidationFailure("local_registry", { "container_registry" })
         ELSE ValidationOk
    ELSE IF ~st.registry_is_local
         THEN ValidationFailure("remote_registry", { "container_registry" })
         ELSE ValidationOk

\* the stack without the components in `named`
without(st, named) ==
    [ st EXCEPT !.local_path =
        [ c \in (DOMAIN st.local_path) \ named |-> st.local_path[c] ] ]

Logged(op, st, was, result) ==
    [ st EXCEPT !.log =
        Append(@, [ op |-> op, is_local |-> st.orchestrator_is_local,
                    local_path |-> st.local_path,
                    registry_is_local |-> st.registry_is_local,
                    was |-> was, result |-> result ]) ]

\* validate the stack as it is
Validate ==
    /\ Len(stack.log) < MaxEdits
    /\ LET r == validate_local_requirements(stack)
       IN  stack' = Logged("validate", stack, r, r)
    /\ UNCHANGED << config, backend, trace, prep, res, sub, conc, gcp >>

\* remove the component a failed validation names, validate again
RemoveNamed ==
    /\ Len(stack.log) < MaxEdits
    /\ LET was == validate_local_requirements(stack)
           st == without(stack, was.named)
       IN  /\ was.reason = "local_component"
           /\ stack' = Logged("remove", st, was,
                              validate_local_requirements(st))
    /\ UNCHANGED << config, backend, trace, prep, res, sub, conc, gcp >>

\* replace the remote orchestrator by a self-managed local one, validate
\* again
MakeLocal ==
    /\ Len(stack.log) < MaxEdits
    /\ ~stack.orchestrator_is_local
    /\ LET was == validate_local_requirements(stack)
           st == [ stack EXCEPT !.orchestrator_is_local = TRUE ]
       IN  stack' = Logged("make_local", st, was,
                           validate_local_requirements(st))
    /\ UNCHANGED << config, backend, trace, prep, res, sub, conc, gcp >>

InitValidate ==
    /\ LifecycleIdle
    /\ prep = PrepIdle
    /\ res = ResIdle
    /\ sub = SubIdle
    /\ conc = ConcIdle
    /\ gcp = GcpIdle
    /\ stack \in [ local_path : [ ComponentTypes -> LocalPaths ],
                    orchestrator_is_local : BOOLEAN,
                    registry_is_local : BOOLEAN, log : { << >> } ]

NextValidate == Validate \/ RemoveNamed \/ MakeLocal

SpecValidate == InitValidate /\ [][NextValidate]_vars

\* ------------------------------------------------- configuration resolver
\* run_pipeline(python_file, config_path): resolves the pipeline, the steps
\* and the materializers a specification document names and runs the
\* pipeline.

MaxSteps == 2

\* the base module and the auxiliary files, with the names they define
BaseFile == "main.py"

Namespace(file) ==
    CASE file = "main.py" -> { "P", "Step1", "Mat1" }
      [] file = "f1.py" -> { "Step1", "Mat1" }
      [] file = "f2.py" -> { "Step2" }

\* A value of the document where a source reference is expected: a string
\* (kind "str", the string in `name`), a mapping (kind "dict") whose `file`
\* and `name` keys are present or not, or a value of another type.
Ref(kind, file, name) == [ kind |-> kind, file |-> file, name |-> name ]

BareString(text) == Ref("str", {}, { text })

Structured(file, name) == Ref("dict", file, name)

OtherValue == Ref("other", {}, {})

\* A `materializers` value: absent, a string, a mapping (its items in
\* document order) or a list.
Mat(kind, text, items) == [ kind |-> kind, text |-> text, items |-> items ]

Item(key, value) == [ key |-> key, value |-> value ]

NoMaterializers == Mat("absent", "", << >>)

MaterializerValues ==
    { NoMaterializers,
      Mat("str", "", << >>),
      Mat("str", "Mat1", << >>),
      Mat("dict", "", << >>),
      Mat("dict", "", << Item("name", BareString("Mat1")) >>),
      Mat("dict", "", << Item("file", BareString("f1.py")),
                         Item("name", BareString("Mat1")) >>),
      Mat("dict", "", << Item("out1", Structured({}, { "Mat1" })) >>),
      Mat("dict", "", << Item("out1", Structured({ "f1.py" }, { "Mat1" })) >>),
      Mat("dict", "", << Item("out1", BareString("Mat1")) >>),
      Mat("dict", "", << Item("out1", Structured({}, { "Nope" })) >>),
      Mat("dict", "", << Item("out1", Structured({ "f1.py" }, { "Mat1" })),
                         Item("out2", Structured({ "f1.py" }, { "Mat1" })) >>),
      Mat("list", "", << Item("", Structured({}, { "Mat1" })) >>),
      Mat("list", "", << >>) }

\* step configurations: `source` is a set, empty when the key is missing
StepConfig(source, materializers) ==
    [ source |-> source, materializers |-> materializers ]

StepConfigs ==
    { StepConfig(src, NoMaterializers) :
        src \in { {}, { BareString("Step1") }, { Structured({}, { "Nope" }) },
                  { Structured({ "f1.py" }, {}) }, { OtherValue },
                  { Structured({ "f2.py" }, { "Step2" }) },
                  { Structured({ "f2.py" }, { "Step1" }) } } }
    \cup { StepConfig({ src }, m) :
             src \in { Structured({}, { "Step1" }),
                       Structured({ "f1.py" }, { "Step1" }) },
             m \in MaterializerValues }

StepLists == UNION { [ 1 .. n -> StepConfigs ] : n \in 0 .. MaxSteps }

\* documents: `name` and `steps` are sets, empty when the key is missing
Documents ==
    { [ name |-> { n }, steps |-> { l } ] :
        n \in { "P", "Nope" }, l \in StepLists }
    \cup { [ name |-> {}, steps |-> { << >> } ],
           [ name |-> { "P" }, steps |-> {} ],
           [ name |-> {}, steps |-> {} ] }

\* the one element of a singleton
The(S) == CHOOSE e \in S : TRUE

Ev(ev, step, file, name) ==
    [ ev |-> ev, step |-> step, file |-> file, name |-> name ]

Emit(y, e) == [ y EXCEPT !.events = Append(@, e) ]

Fail(y, exc, kind, keys, file) ==
    [ y EXCEPT !.exc = exc,
               !.msg = [ kind |-> kind, keys |-> keys, file |-> file ] ]

ResStart ==
    [ events |-> << >>, exc |-> "none", msg |-> NoMessage, loaded |-> {},
      module |-> "", value |-> << "", "" >>, mapping |-> << >>,
      instances |-> << >> ]

\* source_utils.import_python_file: the namespace of a path is loaded the
\* first time the path is imported
import_python_file(y, path, step) ==
    LET a == Emit(y, Ev("import_python_file", step, path, ""))
        b == IF path \in a.loaded
             THEN a
             ELSE [ Emit(a, Ev("load", step, path, ""))
                      EXCEPT !.loaded = @ \cup { path } ]
    IN  [ b EXCEPT !.module = path ]

\* ConfigKeys.key_check: the required keys that are missing are reported
key_check(y, step, missing) ==
    LET a == Emit(y, Ev("key_check", step, "", ""))
    IN  IF missing = {} THEN a
        ELSE Fail(a, "PipelineConfigurationError", "missing_keys", missing, "")

\* _get_module_attribute that lets the AttributeError of getattr through
get_module_attribute_raw(y, module, attribute_name, step) ==
    LET a == Emit(y, Ev("getattr", step, module, attribute_name))
    IN  IF attribute_name \in Namespace(module)
        THEN [ a EXCEPT !.value = << module, attribute_name >> ]
        ELSE Fail(a, "AttributeError", "attribute", { attribute_name }, "")

get_module_attribute(y, module, attribute_name, step) ==
    LET a == Emit(y, Ev("getattr", step, module, attribute_name))
    IN  IF attribute_name \in Namespace(module)
        THEN [ a EXCEPT !.value = << module, attribute_name >> ]
        ELSE Fail(a, "PipelineConfigurationError", "attribute",
                  { attribute_name }, module)

\* _get_module that takes a string for a name of the base module
get_module_legacy_str(y, module, config_item, step) ==
    IF config_item.kind = "dict"
    THEN LET a == IF config_item.file # {}
                  THEN import_python_file(y, The(config_item.file), step)
                  ELSE [ y EXCEPT !.module = module ]
         IN  IF config_item.name = {}
             THEN Fail(a, "KeyError", "key", { "name" }, "")
             ELSE get_module_attribute(a, a.module, The(config_item.name),
                                       step)
    ELSE IF config_item.kind = "str"
    THEN get_module_attribute(y, module, The(config_item.name), step)
    ELSE Fail(y, "PipelineConfigurationError", "source_type", {}, "")

\* _get_module that looks every name up in the base module
get_module_base_only(y, module, config_item, step) ==
    IF config_item.kind = "dict"
    THEN IF config_item.name = {}
         THEN Fail(y, "KeyError", "key", { "name" }, "")
         ELSE get_module_attribute(y, module, The(config_item.name), step)
    ELSE IF config_item.kind = "str"
    THEN Fail(y, "PipelineConfigurationError", "structured_form",
              config_item.name, "")
    ELSE Fail(y, "PipelineConfigurationError", "source_type", {}, "")

get_module(y, module, config_item, step) ==
    IF config_item.kind = "dict"
    THEN LET a == IF config_item.file # {}
                  THEN import_python_file(y, The(config_item.file), step)
                  ELSE [ y EXCEPT !.module = module ]
         IN  IF config_item.name = {}
             THEN Fail(a, "KeyError", "key", { "name" }, "")
             ELSE get_module_attribute(a, a.module, The(config_item.name),
                                       step)
    ELSE IF config_item.kind = "str"
    THEN Fail(y, "PipelineConfigurationError", "structured_form",
              config_item.name, "")
    ELSE Fail(y, "PipelineConfigurationError", "source_type", {}, "")

\* `if materializers_config:`
truthy(m) ==
    CASE m.kind = "str" -> m.text # ""
      [] m.kind \in { "dict", "list" } -> m.items # << >>
      [] OTHER -> FALSE

\* the dict comprehension over materializers_config.items(), from the
\* i-th item on
\* one entry of the comprehension: the resolved symbol under its output name
add_materializer(a, output) ==
    IF a.exc # "none" THEN a
    ELSE [ a EXCEPT !.mapping =
             Append(@, [ output |-> output, symbol |-> a.value ]) ]

RECURSIVE get_materializers(_, _, _, _, _)
get_materializers(y, module, items, i, step) ==
    IF i > Len(items) \/ y.exc # "none" THEN y
    ELSE get_materializers(
             add_materializer(get_module(y, module, items[i].value, step),
                              items[i].key),
             module, items, i + 1, step)

\* the materializers of one step: resolution and attachment
resolve_materializers(y, module, m, step) ==
    IF ~truthy(m) THEN y
    ELSE LET a == IF m.kind = "str"
                  THEN get_module(y, module, BareString(m.text), step)
                  ELSE IF m.kind = "dict"
                  THEN get_materializers(y, module, m.items, 1, step)
                  ELSE Fail(y, "PipelineConfigurationError",
                            "materializers_type", {}, "")
         IN  IF a.exc # "none" THEN a
             ELSE Emit(a, Ev("with_return_materializers", step, "", ""))

\* the loop body without the key check of the step configuration
resolve_step_unchecked(y, module, step_config, step) ==
    LET b == IF step_config.source = {}
             THEN Fail(y, "KeyError", "key", { "source" }, "")
             ELSE get_module(y, module, The(step_config.source), step)
        c == IF b.exc # "none" THEN b
             ELSE [ Emit(b, Ev("instantiate", step, b.value[1], b.value[2]))
                      EXCEPT !.mapping = << >> ]
        d == IF c.exc # "none" THEN c
             ELSE resolve_materializers(c, module, step_config.materializers,
                                        step)
    IN  IF d.exc # "none" THEN d
        ELSE [ d EXCEPT !.instances =
                 Append(@, [ symbol |-> b.value, materializers |-> d.mapping ]) ]

\* the body of the loop over the steps of the document
resolve_step(y, module, step_config, step) ==
    LET a == key_check(y, step,
                       IF step_config.source = {} THEN { "source" } ELSE {})
        b == IF a.exc # "none" THEN a
             ELSE get_module(a, module, The(step_config.source), step)
        c == IF b.exc # "none" THEN b
             ELSE [ Emit(b, Ev("instantiate", step, b.value[1], b.value[2]))
                      EXCEPT !.mapping = << >> ]
        d == IF c.exc # "none" THEN c
             ELSE resolve_materializers(c, module, step_config.materializers,
                                        step)
    IN  IF d.exc # "none" THEN d
        ELSE [ d EXCEPT !.instances =
                 Append(@, [ symbol |-> b.value, materializers |-> d.mapping ]) ]

RECURSIVE resolve_steps(_, _, _, _)
resolve_steps(y, module, steps, i) ==
    IF i > Len(steps) \/ y.exc # "none" THEN y
    ELSE resolve_steps(resolve_step(y, module, steps[i], i), module, steps,
                       i + 1)

\* run_pipeline that assembles and runs the pipeline whatever the loop
\* over the steps raised
run_pipeline_despite_errors(doc) ==
    LET a == import_python_file(ResStart, BaseFile, 0)
        module == a.module
        b == key_check(a, 0,
                       (IF doc.name = {} THEN { "name" } ELSE {})
                       \cup (IF doc.steps = {} THEN { "steps" } ELSE {}))
        c == IF b.exc # "none" THEN b
             ELSE get_module_attribute(b, module, The(doc.name), 0)
        d == IF c.exc # "none" THEN c
             ELSE resolve_steps(c, module, The(doc.steps), 1)
    IN  IF c.exc # "none" THEN d
        ELSE Emit(Emit(Emit(d, Ev("pipeline_init", 0, c.value[1], c.value[2])),
                       Ev("with_config", 0, "", "overwrite_step_parameters")),
                  Ev("run", 0, "", ""))

\* run_pipeline that runs the pipeline before the configuration is attached
run_pipeline_run_unconfigured(doc) ==
    LET a == import_python_file(ResStart, BaseFile, 0)
        module == a.module
        b == key_check(a, 0,
                       (IF doc.name = {} THEN { "name" } ELSE {})
                       \cup (IF doc.steps = {} THEN { "steps" } ELSE {}))
        c == IF b.exc # "none" THEN b
             ELSE get_module_attribute(b, module, The(doc.name), 0)
        d == IF c.exc # "none" THEN c
             ELSE resolve_steps(c, module, The(doc.steps), 1)
    IN  IF d.exc # "none" THEN d
        ELSE Emit(Emit(Emit(d, Ev("pipeline_init", 0, c.value[1], c.value[2])),
                       Ev("run", 0, "", "")),
                  Ev("with_config", 0, "", "overwrite_step_parameters"))

run_pipeline(doc) ==
    LET a == import_python_file(ResStart, BaseFile, 0)
        module == a.module
        b == key_check(a, 0,
                       (IF doc.name = {} THEN { "name" } ELSE {})
                       \cup (IF doc.steps = {} THEN { "steps" } ELSE {}))
        c == IF b.exc # "none" THEN b
             ELSE get_module_attribute(b, module, The(doc.name), 0)
        d == IF c.exc # "none" THEN c
             ELSE resolve_steps(c, module, The(doc.steps), 1)
    IN  IF d.exc # "none" THEN d
        ELSE Emit(Emit(Emit(d, Ev("pipeline_init", 0, c.value[1], c.value[2])),
                       Ev("with_config", 0, "", "overwrite_step_parameters")),
                  Ev("run", 0, "", ""))

RunPipeline ==
    /\ ~res.done
    /\ LET y == run_pipeline(res.doc)
       IN  res' = [ doc |-> res.doc, done |-> TRUE, events |-> y.events,
                    exc |-> y.exc, msg |-> y.msg, instances |-> y.instances ]
    /\ UNCHANGED << config, backend, trace, prep, stack, sub, conc, gcp >>

InitResolve ==
    /\ LifecycleIdle
    /\ prep = PrepIdle
    /\ stack = StackIdle
    /\ sub = SubIdle
    /\ conc = ConcIdle
    /\ gcp = GcpIdle
    /\ res \in [ doc : Documents, done : { FALSE }, events : { << >> },
                  exc : { "none" }, msg : { NoMessage },
                  instances : { << >> } ]

NextResolve == RunPipeline

SpecResolve == InitResolve /\ [][NextResolve]_vars

\* ------------------------------------------------- run submission
\* _upload_and_run_pipeline(): the compiled pipeline is submitted to the
\* Kubeflow Pipelines backend as a recurring or as a one-off run.

MaxSubmits == 2

\* the calls made on the backend client, kfp.Client() included
ClientCalls ==
    { "Client", "get_experiment", "create_experiment",
      "create_recurring_run", "create_run_from_pipeline_package",
      "wait_for_run_completion" }

\* what a client call can raise: a communication failure or a timeout of
\* urllib3, an error response of the API or a ValueError
ExceptionKinds == { "HTTPError", "TimeoutError", "ApiException", "ValueError" }

\* the exceptions `except urllib3.exceptions.HTTPError` catches
is_HTTPError(exc) == exc \in { "HTTPError", "TimeoutError" }

\* at most one call of a submission is made to raise: << call, exception >>
NoFault == << "", "none" >>

Faults ==
    { NoFault }
    \cup { << c, e >> : c \in ClientCalls \ { "wait_for_run_completion" },
                        e \in ExceptionKinds \ { "TimeoutError" } }
    \cup { << "wait_for_run_completion", e >> :
             e \in { "HTTPError", "TimeoutError", "ApiException" } }

SubStart(st) ==
    [ st |-> st, calls |-> << >>, exc |-> "none", warned |-> FALSE ]

\* one call on the client: skipped while an exception is in flight, raises
\* `natural` (what the backend state makes it raise) or the injected fault,
\* has its effect otherwise
ClientCall(y, name, fault, natural, eff) ==
    IF y.exc # "none" THEN y
    ELSE LET a == [ y EXCEPT !.calls = Append(@, name) ]
         IN  IF fault[1] = name THEN [ a EXCEPT !.exc = fault[2] ]
             ELSE IF natural # "none" THEN [ a EXCEPT !.exc = natural ]
             ELSE [ a EXCEPT !.st = eff ]

\* the id the backend gives the next run
NextRun(st) == Cardinality(st.recurring \cup st.oneoff) + 1

\* the `if runtime_configuration.schedule:` branch
submit_recurring(y, fault) ==
    LET b == ClientCall(y, "get_experiment", fault,
                        IF y.st.experiment THEN "none" ELSE "ValueError",
                        y.st)
        c == IF y.exc = "none" /\ b.exc \in { "ValueError", "ApiException" }
             THEN ClientCall([ b EXCEPT !.exc = "none" ], "create_experiment",
                             fault, "none",
                             [ b.st EXCEPT !.experiment = TRUE ])
             ELSE b
    IN  ClientCall(c, "create_recurring_run", fault, "none",
                   [ c.st EXCEPT !.recurring = @ \cup { NextRun(c.st) } ])

\* the one-off branch that waits whatever `synchronous` says
submit_one_off_always_waits(y, fault) ==
    LET b == ClientCall(y, "create_run_from_pipeline_package", fault, "none",
                        [ y.st EXCEPT !.oneoff = @ \cup { NextRun(y.st) } ])
    IN  ClientCall(b, "wait_for_run_completion", fault, "none", b.st)

\* the `else` branch
submit_one_off(y, fault) ==
    LET b == ClientCall(y, "create_run_from_pipeline_package", fault, "none",
                        [ y.st EXCEPT !.oneoff = @ \cup { NextRun(y.st) } ])
    IN  IF b.st.synchronous
        THEN ClientCall(b, "wait_for_run_completion", fault, "none", b.st)
        ELSE b

\* _upload_and_run_pipeline without the except clause
upload_and_run_pipeline_uncaught(st, schedule, fault) ==
    LET a == ClientCall(SubStart(st), "Client", fault, "none", st)
    IN  IF schedule THEN submit_recurring(a, fault)
        ELSE submit_one_off(a, fault)

\* _upload_and_run_pipeline that submits every pipeline as a one-off run
upload_and_run_pipeline_unscheduled(st, schedule, fault) ==
    LET a == ClientCall(SubStart(st), "Client", fault, "none", st)
        b == submit_one_off(a, fault)
    IN  IF is_HTTPError(b.exc)
        THEN [ b EXCEPT !.exc = "none", !.warned = TRUE ]
        ELSE b

upload_and_run_pipeline(st, schedule, fault) ==
    LET a == ClientCall(SubStart(st), "Client", fault, "none", st)
        b == IF schedule THEN submit_recurring(a, fault)
             ELSE submit_one_off(a, fault)
    IN  IF is_HTTPError(b.exc)
        THEN [ b EXCEPT !.exc = "none", !.warned = TRUE ]
        ELSE b

Submit ==
    /\ Len(sub.log) < MaxSubmits
    /\ \E schedule \in BOOLEAN, fault \in Faults :
          LET y == upload_and_run_pipeline(sub, schedule, fault)
          IN  sub' = [ y.st EXCEPT !.log =
                         Append(@, [ schedule |-> schedule, fault |-> fault,
                                     experiment |-> sub.experiment,
                                     recurring |-> y.st.recurring \ sub.recurring,
                                     oneoff |-> y.st.oneoff \ sub.oneoff,
                                     calls |-> y.calls, exc |-> y.exc,
                                     warned |-> y.warned ]) ]
    /\ UNCHANGED << config, backend, trace, prep, stack, res, conc, gcp >>

InitSubmit ==
    /\ LifecycleIdle
    /\ prep = PrepIdle
    /\ stack = StackIdle
    /\ res = ResIdle
    /\ sub \in [ synchronous : BOOLEAN, experiment : BOOLEAN,
                  recurring : { {} }, oneoff : { {} }, log : { << >> } ]
    /\ conc = ConcIdle
    /\ gcp = GcpIdle

NextSubmit == Submit

SpecSubmit == InitSubmit /\ [][NextSubmit]_vars

\* ------------------------------------------------- concurrent resume()
\* resume() executed by several callers on the same orchestrator. A caller
\* evaluates one condition of resume() or issues one driver call per step;
\* between two steps of a caller the other callers may take steps. When
\* `serialized` holds the callers take care that a resume() begins only
\* when no other is in progress; the orchestrator itself holds no lock.
NumCallers == 2

Callers == 1 .. NumCallers

\* where a caller is in resume(): before the call, at one of the
\* conditions, at one of the driver calls, or after the call
Finished == { "returned", "raised" }

InProgress(c) == conc.pc[c] \notin ({ "idle" } \cup Finished)

Goto(c, label) == [ conc EXCEPT !.pc[c] = label ]

\* the driver call of caller c that x executed, and where c goes on
Issue(c, x, name, label) ==
    [ conc EXCEPT !.pc[c] = IF x.exc = "none" THEN label ELSE "raised",
                  !.issued = Append(@, [ caller |-> c, call |-> name,
                                         ok |-> x.exc = "none" ]) ]

\* the deployment state becomes x.st
Commit(x) ==
    /\ clusterExists' = x.st.clusterExists
    /\ clusterRunning' = x.st.clusterRunning
    /\ kfpDeployed' = x.st.kfpDeployed
    /\ mounted' = x.st.mounted
    /\ daemonAlive' = x.st.daemonAlive
    /\ daemonPort' = x.st.daemonPort
    /\ rootDir' = x.st.rootDir
    /\ registryYaml' = x.st.registryYaml
    /\ logFile' = x.st.logFile

Observe == UNCHANGED << config, backend, trace, prep, stack, res, sub, gcp >>

Act == UNCHANGED << config, trace, prep, stack, res, sub, gcp >>

\* `if not self.is_daemon_running:`
daemon_to_start(s) == ~is_daemon_running(s)

\* a resume() that starts the cluster of a local orchestrator whether it
\* runs or not
cluster_to_start_always(s) == is_local

\* `if self.is_local and not self.is_cluster_running:`
cluster_to_start(s) == is_local /\ ~is_cluster_running(s)

CallResume(c) ==
    /\ conc.pc[c] = "idle"
    /\ conc.serialized => \A d \in Callers : ~InProgress(d)
    /\ conc' = Goto(c, "is_running")
    /\ Observe

CheckRunning(c) ==
    /\ conc.pc[c] = "is_running"
    /\ conc' = Goto(c, IF is_running(Cur) THEN "returned"
                       ELSE "is_provisioned")
    /\ Observe

CheckProvisioned(c) ==
    /\ conc.pc[c] = "is_provisioned"
    /\ conc' = Goto(c, IF ~is_provisioned(Cur) THEN "raised"
                       ELSE "is_cluster_running")
    /\ Observe

CheckClusterRunning(c) ==
    /\ conc.pc[c] = "is_cluster_running"
    /\ conc' = Goto(c, IF cluster_to_start(Cur) THEN "start_k3d_cluster"
                       ELSE "is_daemon_running")
    /\ Observe

StartCluster(c) ==
    /\ conc.pc[c] = "start_k3d_cluster"
    /\ \E F \in SUBSET { "start_k3d_cluster" } :
          LET x == start_k3d_cluster(Start(Cur), F)
          IN  /\ Commit(x)
              /\ conc' = Issue(c, x, "start_k3d_cluster",
                               "wait_until_kubeflow_pipelines_ready")
    /\ Act

WaitUntilReady(c) ==
    /\ conc.pc[c] = "wait_until_kubeflow_pipelines_ready"
    /\ \E F \in SUBSET { "wait_until_kubeflow_pipelines_ready" } :
          LET x == wait_until_kubeflow_pipelines_ready(Start(Cur), F)
          IN  /\ Commit(x)
              /\ conc' = Issue(c, x, "wait_until_kubeflow_pipelines_ready",
                               "is_daemon_running")
    /\ Act

CheckDaemonRunning(c) ==
    /\ conc.pc[c] = "is_daemon_running"
    /\ conc' = Goto(c, IF daemon_to_start(Cur) THEN "start_kfp_ui_daemon"
                       ELSE "returned")
    /\ Observe

StartDaemon(c) ==
    /\ conc.pc[c] = "start_kfp_ui_daemon"
    /\ \E F \in SUBSET { "start_kfp_ui_daemon" }, occ \in Occupations :
         \E free \in find_available_port(Cur, occ) :
            LET x == start_kfp_ui_daemon(
                         Start(Cur), F, occ,
                         get_kfp_ui_daemon_port(Cur, occ, free))
            IN  /\ Commit(x)
                /\ conc' = Issue(c, x, "start_kfp_ui_daemon", "returned")
    /\ Act

\* the deployment states resume() may find: nothing provisioned, or
\* provisioned with the cluster running or stopped, the UI daemon stopped
InitConcurrent ==
    /\ isLocal \in BOOLEAN
    /\ win32 = FALSE
    /\ prereq \in BOOLEAN
    /\ artifactStoreLocal = TRUE
    /\ uiPort \in Ports
    /\ clusterExists \in IF isLocal THEN BOOLEAN ELSE { FALSE }
    /\ clusterRunning \in IF clusterExists THEN BOOLEAN ELSE { FALSE }
    /\ kfpDeployed = clusterExists
    /\ mounted = clusterExists
    /\ daemonAlive = FALSE
    /\ daemonPort = {}
    /\ rootDir = clusterExists
    /\ registryYaml = clusterExists
    /\ logFile = FALSE
    /\ trace = << >>
    /\ prep = PrepIdle
    /\ stack = StackIdle
    /\ res = ResIdle
    /\ sub = SubIdle
    /\ gcp = GcpIdle
    /\ conc \in [ serialized : BOOLEAN, pc : { [ c \in Callers |-> "idle" ] },
                   issued : { << >> } ]

NextConcurrent ==
    \E c \in Callers :
       \/ CallResume(c)
       \/ CheckRunning(c)
       \/ CheckProvisioned(c)
       \/ CheckClusterRunning(c)
       \/ StartCluster(c)
       \/ WaitUntilReady(c)
       \/ CheckDaemonRunning(c)
       \/ StartDaemon(c)

SpecConcurrent == InitConcurrent /\ [][NextConcurrent]_vars

\* ------------------------------------------------- GCP secrets manager
\* The secrets of the project are held by the Secret Manager service: one
\* GCP secret per key of a ZenML secret, its id the key, labelled with the
\* name of the ZenML secret it belongs to (`group` is empty for a secret
\* that does not carry the label) and holding the latest payload.
MaxGcpOps == 3

GroupNames == { "aws", "db" }

SecretKeys == { "user", "password" }

\* the values a ZenML secret can give a key: a string and a number
SecretValues ==
    { [ type |-> "str", text |-> "s3cret" ], [ type |-> "int", text |-> "7" ] }

\* "{}".format(v).encode() and payload.data.decode("UTF-8"): what is stored
\* and read back is the text of the value
format(v) == v.text

\* the content of a ZenML secret: its items in order, one value per key
SecretContents ==
    UNION { { [ i \in 1 .. n |-> << ks[i], v >> ] :
                ks \in { s \in [ 1 .. n -> SecretKeys ] :
                           \A i, j \in 1 .. n : i # j => s[i] # s[j] },
                v \in SecretValues } :
            n \in 0 .. Cardinality(SecretKeys) }

GcpSecret(id, group, payload) ==
    [ id |-> id, group |-> group, payload |-> payload ]

\* a secret of the project that ZenML did not create
ForeignSecret == GcpSecret("password", {}, "other")

GcpStart(store) == [ store |-> store, exc |-> "none", result |-> {} ]

\* CLIENT.create_secret followed by CLIENT.add_secret_version: the service
\* refuses a secret id the project already holds
create_secret(y, id, group, payload) ==
    IF y.exc # "none" THEN y
    ELSE IF \E e \in y.store : e.id = id
    THEN [ y EXCEPT !.exc = "AlreadyExists" ]
    ELSE [ y EXCEPT !.store = @ \cup { GcpSecret(id, { group }, payload) } ]

\* CLIENT.add_secret_version on the secret of an id: the service refuses an
\* id the project does not hold
add_secret_version(y, id, payload) ==
    IF y.exc # "none" THEN y
    ELSE IF ~\E e \in y.store : e.id = id
    THEN [ y EXCEPT !.exc = "NotFound" ]
    ELSE [ y EXCEPT !.store =
             { IF e.id = id THEN [ e EXCEPT !.payload = payload ] ELSE e :
               e \in @ } ]

\* the loop over secret.content.items(), from the i-th item on
RECURSIVE register_items(_, _, _, _)
register_items(y, name, content, i) ==
    IF i > Len(content) THEN y
    ELSE register_items(
             create_secret(y, content[i][1], name, format(content[i][2])),
             name, content, i + 1)

register_secret(store, name, content) ==
    register_items(GcpStart(store), name, content, 1)

RECURSIVE update_items(_, _, _)
update_items(y, content, i) ==
    IF i > Len(content) THEN y
    ELSE update_items(
             add_secret_version(y, content[i][1], format(content[i][2])),
             content, i + 1)

update_secret(store, name, content) ==
    update_items(GcpStart(store), content, 1)

\* the secrets of the project that carry the group label `secret_name`
labelled(store, secret_name) == { e \in store : secret_name \in e.group }

\* secret_contents after the loop over CLIENT.list_secrets
secret_contents(store, secret_name) ==
    { << e.id, e.payload >> : e \in labelled(store, secret_name) }

\* get_secret that returns whatever it has collected
get_secret_unchecked(store, secret_name) ==
    [ GcpStart(store) EXCEPT !.result = secret_contents(store, secret_name) ]

get_secret(store, secret_name) ==
    IF secret_contents(store, secret_name) = {}
    THEN [ GcpStart(store) EXCEPT !.exc = "RuntimeError" ]
    ELSE [ GcpStart(store) EXCEPT
             !.result = secret_contents(store, secret_name) ]

delete_secret(store, secret_name) ==
    [ GcpStart(store) EXCEPT !.store = @ \ labelled(store, secret_name) ]

delete_all_secrets(store) ==
    [ GcpStart(store) EXCEPT !.store = { e \in @ : e.group = {} } ]

\* the operation is recorded with the project before and after it
GcpRecord(op, name, content, y) ==
    /\ gcp' = [ store |-> y.store,
                log |-> Append(gcp.log,
                               [ op |-> op, name |-> name,
                                 content |-> content, before |-> gcp.store,
                                 after |-> y.store, exc |-> y.exc,
                                 result |-> y.result ]) ]
    /\ UNCHANGED << config, backend, trace, prep, stack, res, sub, conc >>

RegisterSecret ==
    /\ Len(gcp.log) < MaxGcpOps
    /\ \E name \in GroupNames, content \in SecretContents :
          GcpRecord("register_secret", name, content,
                    register_secret(gcp.store, name, content))

UpdateSecret ==
    /\ Len(gcp.log) < MaxGcpOps
    /\ \E name \in GroupNames, content \in SecretContents :
          GcpRecord("update_secret", name, content,
                    update_secret(gcp.store, name, content))

GetSecret ==
    /\ Len(gcp.log) < MaxGcpOps
    /\ \E name \in GroupNames :
          GcpRecord("get_secret", name, << >>, get_secret(gcp.store, name))

DeleteSecret ==
    /\ Len(gcp.log) < MaxGcpOps
    /\ \E name \in GroupNames :
          GcpRecord("delete_secret", name, << >>,
                    delete_secret(gcp.store, name))

DeleteAllSecrets ==
    /\ Len(gcp.log) < MaxGcpOps
    /\ GcpRecord("delete_all_secrets", "", << >>,
                 delete_all_secrets(gcp.store))

InitGcp ==
    /\ LifecycleIdle
    /\ prep = PrepIdle
    /\ stack = StackIdle
    /\ res = ResIdle
    /\ sub = SubIdle
    /\ conc = ConcIdle
    /\ gcp \in [ store : { {}, { ForeignSecret } }, log : { << >> } ]

NextGcp ==
    RegisterSecret \/ UpdateSecret \/ GetSecret \/ DeleteSecret
    \/ DeleteAllSecrets

SpecGcp == InitGcp /\ [][NextGcp]_vars

\* ----------------------------------------------------- vocabulary of claims
\* the composite deployment states
NOT_PROVISIONED(s) == ~is_provisioned(s)
RUNNING(s) == is_running(s)
PROVISIONED_SUSPENDED(s) == is_suspended(s)
PARTIAL(s) == is_provisioned(s) /\ ~is_running(s) /\ ~is_suspended(s)

\* the values of the three probes
Probes(s) ==
    << is_provisioned(s), is_cluster_running(s), is_daemon_running(s) >>

CallSet(e) == { e.calls[k] : k \in DOMAIN e.calls }

\* the operation returned to its caller without raising
Returned(e) == e.exc = "none"

\* no driver call of the operation raised
NoFailure(e) == e.failed = {}

\* calls that create backend resources or write the registry config
CreationCalls ==
    { "write_local_registry_yaml", "create_k3d_cluster",
      "deploy_kubeflow_pipelines", "add_hostpath_to_kubeflow_pipelines" }

\* calls that act on the backend cluster
ClusterCalls ==
    { "create_k3d_cluster", "start_k3d_cluster", "stop_k3d_cluster",
      "delete_k3d_cluster", "deploy_kubeflow_pipelines",
      "add_hostpath_to_kubeflow_pipelines" }

\* the calls of provision()'s try block
TryCalls ==
    { "create_k3d_cluster", "deploy_kubeflow_pipelines",
      "add_hostpath_to_kubeflow_pipelines" }

\* the driver calls of the rollback
RollbackCalls == { "stop_kfp_ui_daemon", "delete_k3d_cluster" }

\* the part of the deployment state that lives on the backend cluster, with
\* the registry config
ClusterPart(s) ==
    << s.clusterExists, s.clusterRunning, s.kfpDeployed, s.mounted,
       s.registryYaml >>

\* ------------------------------------------------------------------- claims
\* C1: two provision() calls in succession on a local backend that starts
\* NOT_PROVISIONED, no backend call failing, leave the same observable
\* state as one call, and the second call creates nothing again.
C1_ProvisionTwice ==
    \A i \in DOMAIN trace :
        ( /\ i + 1 \in DOMAIN trace
          /\ is_local /\ check_prerequisites
          /\ trace[i].op = "provision" /\ trace[i + 1].op = "provision"
          /\ NOT_PROVISIONED(trace[i].before)
          /\ Returned(trace[i]) /\ NoFailure(trace[i])
          /\ NoFailure(trace[i + 1]) )
        => /\ Returned(trace[i + 1])
           /\ Probes(trace[i + 1].after) = Probes(trace[i].after)
           /\ CallSet(trace[i + 1]) \cap CreationCalls = {}

\* C2: provision() in state RUNNING returns without raising, makes no call
\* and leaves the state RUNNING.
C2_ProvisionWhenRunning ==
    \A i \in DOMAIN trace :
        (trace[i].op = "provision" /\ RUNNING(trace[i].before))
        => /\ Returned(trace[i])
           /\ trace[i].calls = << >>
           /\ ~trace[i].rollback
           /\ trace[i].after = trace[i].before
           /\ RUNNING(trace[i].after)

C2_Witness ==
    \E i \in DOMAIN trace :
        /\ trace[i].op = "provision" /\ RUNNING(trace[i].before)
        /\ is_local /\ ~win32
        /\ Returned(trace[i]) /\ RUNNING(trace[i].after)

C4_MissingPrerequisites ==
    \A i \in DOMAIN trace :
        ( /\ trace[i].op = "provision"
          /\ ~RUNNING(trace[i].before)
          /\ ~check_prerequisites )
        => /\ trace[i].exc = "ProvisioningError"
           /\ trace[i].calls = << >>
           /\ ~trace[i].rollback
           /\ trace[i].after = trace[i].before

C4_Witness ==
    \E i \in DOMAIN trace :
        /\ trace[i].op = "provision"
        /\ ~RUNNING(trace[i].before) /\ ~check_prerequisites
        /\ trace[i].exc = "ProvisioningError"
        /\ ~trace[i].after.rootDir

\* C5: deprovision() called when is_provisioned is false completes without
\* error and issues no cluster deletion call, in local and in remote mode,
\* with or without the prerequisites (no driver call being made to raise).
C5_DeprovisionUnprovisioned ==
    \A i \in DOMAIN trace :
        ( /\ trace[i].op = "deprovision"
          /\ NOT_PROVISIONED(trace[i].before)
          /\ NoFailure(trace[i]) )
        => /\ Returned(trace[i])
           /\ "delete_k3d_cluster" \notin CallSet(trace[i])

\* C6: provision(), suspend(), resume() on a local backend end in a RUNNING
\* state equal to the one right after the provision(): same cluster, same
\* daemon port, same probe values.
C6_RoundTrip ==
    \A i \in DOMAIN trace :
        ( /\ i + 2 \in DOMAIN trace
          /\ is_local /\ check_prerequisites
          /\ trace[i].op = "provision" /\ NOT_PROVISIONED(trace[i].before)
          /\ trace[i + 1].op = "suspend"
          /\ trace[i + 2].op = "resume"
          /\ \A k \in { i, i + 1, i + 2 } :
                Returned(trace[k]) /\ NoFailure(trace[k]) )
        => /\ RUNNING(trace[i + 2].after)
           /\ Probes(trace[i + 2].after) = Probes(trace[i].after)
           /\ trace[i + 2].after.clusterExists = trace[i].after.clusterExists
           /\ trace[i + 2].after.daemonPort = trace[i].after.daemonPort

\* C7: in remote mode no operation ever issues a cluster call (create, start,
\* stop, delete, deploy, mount) or changes the cluster or the registry
\* config; only the daemon, the directory and the log file are touched.
C7_RemoteNeverTouchesCluster ==
    ~is_local =>
        \A i \in DOMAIN trace :
            /\ CallSet(trace[i]) \cap ClusterCalls = {}
            /\ "write_local_registry_yaml" \notin CallSet(trace[i])
            /\ ClusterPart(trace[i].after) = ClusterPart(trace[i].before)

C7_Witness ==
    /\ ~is_local
    /\ \E i \in DOMAIN trace :
          trace[i].op = "provision" /\ "makedirs" \in CallSet(trace[i])
    /\ \E i \in DOMAIN trace :
          /\ trace[i].op = "resume"
          /\ "start_kfp_ui_daemon" \in CallSet(trace[i])
          /\ trace[i].after.daemonAlive
    /\ \E i \in DOMAIN trace :
          /\ trace[i].op \in { "deprovision", "suspend" }
          /\ "stop_kfp_ui_daemon" \in CallSet(trace[i])
          /\ Returned(trace[i])

\* C8: provision() on a remote-mode orchestrator, prerequisites present and
\* not RUNNING, creates the bookkeeping directory and returns: no registry
\* config, nothing created or deployed on the backend.
C8_RemoteProvision ==
    \A i \in DOMAIN trace :
        ( /\ trace[i].op = "provision" /\ ~is_local
          /\ check_prerequisites /\ ~RUNNING(trace[i].before) )
        => /\ Returned(trace[i])
           /\ trace[i].calls = << "makedirs" >>
           /\ ~trace[i].rollback
           /\ trace[i].after = [ trace[i].before EXCEPT !.rootDir = TRUE ]

C8_Witness ==
    \E i \in DOMAIN trace :
        /\ trace[i].op = "provision" /\ ~is_local
        /\ check_prerequisites /\ ~RUNNING(trace[i].before)
        /\ ~trace[i].before.rootDir /\ trace[i].after.rootDir

\* C9 (as stated): from any state and in either mode, once deprovision()
\* completes is_provisioned is false.
C9_DeprovisionEndsNotProvisioned ==
    \A i \in DOMAIN trace :
        (trace[i].op = "deprovision" /\ Returned(trace[i]))
        => NOT_PROVISIONED(trace[i].after)

\* C9 (amended): once deprovision() completes on a local-mode orchestrator
\* is_provisioned is false; on a remote-mode orchestrator deprovision()
\* leaves is_provisioned as it was, true while the prerequisites are
\* present.
C9_DeprovisionLocalEndsNotProvisioned ==
    \A i \in DOMAIN trace :
        (trace[i].op = "deprovision" /\ Returned(trace[i]))
        => /\ is_local => NOT_PROVISIONED(trace[i].after)
           /\ ~is_local =>
                 /\ is_provisioned(trace[i].after)
                       = is_provisioned(trace[i].before)
                 /\ is_provisioned(trace[i].after) = check_prerequisites

C9_Witness ==
    \E i \in DOMAIN trace :
        /\ trace[i].op = "deprovision" /\ Returned(trace[i])
        /\ is_local /\ ~win32
        /\ RUNNING(trace[i].before)
        /\ NOT_PROVISIONED(trace[i].after)

\* C10: resume() called when the backend is not provisioned raises
\* ProvisioningError and starts neither the cluster nor the daemon, in local
\* and in remote mode.
C10_ResumeUnprovisioned ==
    \A i \in DOMAIN trace :
        (trace[i].op = "resume" /\ NOT_PROVISIONED(trace[i].before))
        => /\ trace[i].exc = "ProvisioningError"
           /\ trace[i].calls = << >>
           /\ trace[i].after = trace[i].before

C10_Witness ==
    \E i \in DOMAIN trace :
        /\ trace[i].op = "resume" /\ NOT_PROVISIONED(trace[i].before)
        /\ is_local /\ check_prerequisites
        /\ trace[i].exc = "ProvisioningError"

\* the driver's probes of the backend cluster
ClusterProbes == { "k3d_cluster_exists", "k3d_cluster_running" }

\* the ports available to the daemon that operation e started
AvailableTo(e) ==
    { p \in Ports : port_available(e.before, e.occupied, p) }

StartsDaemon(e) ==
    e.op = "resume" /\ "start_kfp_ui_daemon" \in CallSet(e)

\* C11 (as stated): whenever resume() starts the daemon, whatever the
\* configured port, the port handed to the daemon is the configured port if
\* it is free and a free port otherwise.
C11_PortHandedIsFree ==
    \A i \in DOMAIN trace :
        StartsDaemon(trace[i])
        => /\ trace[i].port \subseteq AvailableTo(trace[i])
           /\ uiPort \in AvailableTo(trace[i]) => trace[i].port = { uiPort }

\* C11 (amended): when the configured port is the default port, the port
\* handed to the daemon is the default port if it is free and a free port
\* otherwise, so the daemon start never fails for the default port being
\* occupied; a port other than the default is handed to the daemon as
\* configured, free or not, and the daemon is never bound to an occupied
\* port.
C11_FallbackOnlyForDefaultPort ==
    \A i \in DOMAIN trace :
        StartsDaemon(trace[i])
        => /\ Cardinality(trace[i].port) = 1
           /\ uiPort = DEFAULT_KFP_UI_PORT
                 => /\ trace[i].port \subseteq AvailableTo(trace[i])
                    /\ uiPort \in AvailableTo(trace[i])
                          => trace[i].port = { uiPort }
                    /\ "start_kfp_ui_daemon" \in trace[i].failed
                          => trace[i].exc = "DriverError"
           /\ uiPort # DEFAULT_KFP_UI_PORT => trace[i].port = { uiPort }
           /\ trace[i].after.daemonAlive
                 => /\ trace[i].after.daemonPort = trace[i].port
                    /\ trace[i].port \cap trace[i].occupied = {}

C11_Witness ==
    \E i \in DOMAIN trace :
        /\ StartsDaemon(trace[i])
        /\ uiPort = DEFAULT_KFP_UI_PORT
        /\ DEFAULT_KFP_UI_PORT \in trace[i].occupied
        /\ trace[i].port # { DEFAULT_KFP_UI_PORT }
        /\ trace[i].after.daemonAlive
        /\ Returned(trace[i])

\* C12: suspend() called when the backend is not provisioned is a no-op: no
\* daemon stop, no cluster stop, no probe value changed, nothing raised.
C12_SuspendUnprovisioned ==
    \A i \in DOMAIN trace :
        (trace[i].op = "suspend" /\ NOT_PROVISIONED(trace[i].before))
        => /\ Returned(trace[i])
           /\ trace[i].calls = << >>
           /\ trace[i].after = trace[i].before
           /\ Probes(trace[i].after) = Probes(trace[i].before)

C12_Witness ==
    \E i \in DOMAIN trace :
        /\ trace[i].op = "suspend" /\ NOT_PROVISIONED(trace[i].before)
        /\ is_daemon_running(trace[i].before)
        /\ Returned(trace[i])

\* C13 (as stated): with the external tooling absent every status probe
\* returns false and consults no cluster probe of the driver, in local and
\* in remote mode.
C13_ProbesFalseWithoutTooling ==
    ~check_prerequisites
    => /\ ~is_provisioned(Cur) /\ ~is_running(Cur) /\ ~is_suspended(Cur)
       /\ ~is_cluster_running(Cur) /\ ~is_daemon_running(Cur)
       /\ ( consulted_is_provisioned(Cur) \cup consulted_is_running(Cur)
            \cup consulted_is_suspended(Cur)
            \cup consulted_is_cluster_running(Cur)
            \cup consulted_is_daemon_running(Cur) ) \cap ClusterProbes = {}

\* C13 (amended): with the external tooling absent is_provisioned,
\* is_running and is_suspended return false and consult no cluster probe of
\* the driver, in local and in remote mode; is_cluster_running does not test
\* for the tooling (true in remote mode, the driver's answer in local mode)
\* and is_daemon_running is true on win32 and the daemon's liveness
\* elsewhere.
C13_CompositeProbesFalseWithoutTooling ==
    ~check_prerequisites
    => /\ ~is_provisioned(Cur) /\ ~is_running(Cur) /\ ~is_suspended(Cur)
       /\ ( consulted_is_provisioned(Cur) \cup consulted_is_running(Cur)
            \cup consulted_is_suspended(Cur) ) \cap ClusterProbes = {}
       /\ ~is_local => is_cluster_running(Cur)
       /\ is_local =>
             /\ is_cluster_running(Cur) = k3d_cluster_running(Cur)
             /\ "k3d_cluster_running" \in consulted_is_cluster_running(Cur)
       /\ win32 => is_daemon_running(Cur)
       /\ ~win32 => is_daemon_running(Cur) = check_if_daemon_is_running(Cur)

C13_Witness ==
    /\ ~check_prerequisites /\ ~is_local
    /\ \E i \in DOMAIN trace :
          trace[i].op = "resume" /\ trace[i].exc = "ProvisioningError"
    /\ ~is_running(Cur) /\ is_cluster_running(Cur)

\* C14: when a pipeline requests a non-empty list of secrets and the stack
\* has no secrets manager, prepare_pipeline_deployment() raises
\* ProvisioningError before any image is built or pushed; requested secrets
\* are never skipped: a preparation that builds an image has fetched every
\* requested secret and passes all their keys to the build.
C14_SecretsWithoutManager ==
    \A i \in DOMAIN prep.runs :
        LET r == prep.runs[i]
            called == { r.calls[k] : k \in DOMAIN r.calls }
        IN  /\ (r.secrets # << >> /\ ~prep.secrets_manager)
               => /\ r.exc = "ProvisioningError"
                  /\ r.calls = << >>
            /\ "build_docker_image" \in called
               => /\ Cardinality({ k \in DOMAIN r.calls :
                                     r.calls[k] = "get_secret" })
                       = Len(r.secrets)
                  /\ \A k \in DOMAIN r.secrets :
                        dict_keys(secret_content(r.secrets[k]))
                            \subseteq dict_keys(r.env)

C14_Witness ==
    /\ ~prep.secrets_manager /\ prep.container_registry
    /\ \E i \in DOMAIN prep.runs :
          /\ Len(prep.runs[i].secrets) = 2
          /\ prep.runs[i].exc = "ProvisioningError"

\* the components of a logged stack that expose a non-empty local_path
LocalComponents(e) ==
    { c \in DOMAIN e.local_path : e.local_path[c] \notin { "None", "" } }

\* C15: the locality rule returns ok exactly when (remote orchestrator) no
\* component exposes a non-empty local_path and the container registry is
\* not local, or (local orchestrator) the container registry is local,
\* whatever the other components; a failure for a local component under a
\* remote orchestrator names one component that exposes a local_path.
C15_LocalityRule ==
    \A i \in DOMAIN stack.log :
        LET e == stack.log[i]
        IN  /\ e.result.ok
               <=> \/ /\ ~e.is_local
                      /\ LocalComponents(e) = {}
                      /\ ~e.registry_is_local
                   \/ e.is_local /\ e.registry_is_local
            /\ (~e.is_local /\ LocalComponents(e) # {})
               => /\ e.result.reason = "local_component"
                  /\ Cardinality(e.result.named) = 1
                  /\ e.result.named \subseteq LocalComponents(e)
            /\ e.result.reason = "local_component"
               => ~e.is_local /\ LocalComponents(e) # {}

C15_Witness ==
    \E i \in DOMAIN stack.log :
        /\ stack.log[i].op = "validate" /\ ~stack.log[i].is_local
        /\ stack.log[i].local_path["metadata_store"] = ""
        /\ stack.log[i].result.named = { "artifact_store" }
        /\ stack.log[i].registry_is_local

\* a logged edit of a stack that failed, under a remote orchestrator, for a
\* component exposing a local_path
RepairOf(e) ==
    e.op \in { "remove", "make_local" } /\ e.was.reason = "local_component"

\* C16 (as stated): for a stack failing the locality rule under a remote
\* orchestrator for a local component, removing the named component makes
\* validation pass, and so does making the orchestrator local.
C16_RepairPasses ==
    \A i \in DOMAIN stack.log :
        RepairOf(stack.log[i]) => stack.log[i].result.ok

\* C16 (amended): for such a stack, removing the named component makes
\* validation pass exactly when no other component exposes a non-empty
\* local_path and the container registry is not local (otherwise the next
\* failure names another component or the registry); making the
\* orchestrator local makes validation pass exactly when the container
\* registry is local.
C16_RepairPassesWhenRestIsConsistent ==
    \A i \in DOMAIN stack.log :
        LET e == stack.log[i]
        IN  RepairOf(e)
            => /\ e.op = "remove"
                  => /\ e.was.named \cap DOMAIN e.local_path = {}
                     /\ e.result.ok <=> /\ LocalComponents(e) = {}
                                        /\ ~e.registry_is_local
                     /\ e.result.named \cap e.was.named = {}
               /\ e.op = "make_local"
                  => /\ e.is_local
                     /\ e.result.ok <=> e.registry_is_local
                     /\ ~e.result.ok => e.result.reason = "remote_registry"

C16_Witness ==
    /\ \E i \in DOMAIN stack.log :
          /\ stack.log[i].op = "remove" /\ RepairOf(stack.log[i])
          /\ ~stack.log[i].result.ok
    /\ \E i \in DOMAIN stack.log :
          /\ stack.log[i].op = "make_local" /\ RepairOf(stack.log[i])
          /\ stack.log[i].result.ok

\* ------------------------------------------------- resolver vocabulary
TopLevelMissing(doc) ==
    (IF doc.name = {} THEN { "name" } ELSE {})
    \cup (IF doc.steps = {} THEN { "steps" } ELSE {})

StepsOf(doc) == IF doc.steps = {} THEN << >> ELSE The(doc.steps)

\* the steps of the document that lack the required `source` key
StepsMissingSource(doc) ==
    { i \in DOMAIN StepsOf(doc) : StepsOf(doc)[i].source = {} }

EventIndexes(kinds) ==
    { k \in DOMAIN res.events : res.events[k].ev \in kinds }

\* lookups, loads of auxiliary files and instantiations
ResolutionEvents ==
    { k \in EventIndexes({ "getattr", "load", "instantiate" }) :
        res.events[k].file # BaseFile \/ res.events[k].ev # "load" }

NeverRun == EventIndexes({ "pipeline_init", "with_config", "run" }) = {}

MissingKeysError(keys) ==
    /\ res.exc = "PipelineConfigurationError"
    /\ res.msg.kind = "missing_keys"
    /\ res.msg.keys = keys

\* C17 (as stated): for a document in which a top-level key or the key of
\* any step is missing, resolution fails with a ConfigurationError for
\* missing keys and before the failure no symbol has been looked up, no
\* auxiliary file loaded and no step instantiated.
C17_AllKeysCheckedFirst ==
    (res.done /\ ( TopLevelMissing(res.doc) # {}
                   \/ StepsMissingSource(res.doc) # {} ))
    => /\ res.exc = "PipelineConfigurationError"
       /\ res.msg.kind = "missing_keys"
       /\ ResolutionEvents = {}

\* C17 (amended): the top-level keys are checked before anything is looked
\* up and a step's keys are checked before that step's source is resolved,
\* but only when the loop reaches the step, after the pipeline symbol has
\* been looked up and the earlier steps have been resolved and
\* instantiated. A missing top-level key gives a ConfigurationError naming
\* exactly the missing keys with nothing looked up; a step reached without
\* its required key gives a ConfigurationError naming that key with nothing
\* of that step looked up; a document with a missing key is never run.
C17_KeysCheckedLevelByLevel ==
    res.done
    => /\ TopLevelMissing(res.doc) # {}
          => /\ MissingKeysError(TopLevelMissing(res.doc))
             /\ ResolutionEvents = {}
       /\ \A k \in ResolutionEvents :
             \E c \in EventIndexes({ "key_check" }) :
                c < k /\ res.events[c].step = res.events[k].step
       /\ \A i \in StepsMissingSource(res.doc) :
             (\E c \in EventIndexes({ "key_check" }) : res.events[c].step = i)
             => /\ MissingKeysError({ "source" })
                /\ \A k \in ResolutionEvents : res.events[k].step # i
       /\ ( TopLevelMissing(res.doc) # {}
            \/ StepsMissingSource(res.doc) # {} )
          => res.exc # "none" /\ NeverRun

C17_Witness ==
    /\ res.done
    /\ StepsMissingSource(res.doc) = { 2 }
    /\ MissingKeysError({ "source" })
    /\ \E k \in EventIndexes({ "load" }) :
          res.events[k].file = "f1.py" /\ res.events[k].step = 1
    /\ \E k \in EventIndexes({ "instantiate" }) : res.events[k].step = 1

\* the namespace a structured reference is looked up in
FileOf(ref) == IF ref.file = {} THEN BaseFile ELSE The(ref.file)

\* a structured reference that names a symbol of its namespace
Resolvable(ref) ==
    /\ ref.kind = "dict" /\ ref.name # {}
    /\ The(ref.name) \in Namespace(FileOf(ref))

SymbolOf(ref) == << FileOf(ref), The(ref.name) >>

ItemKeys(m) == { m.items[k].key : k \in DOMAIN m.items }

ItemValue(m, key) ==
    m.items[CHOOSE k \in DOMAIN m.items : m.items[k].key = key].value

\* a `materializers` value that is one structured source reference:
\* `name`, optionally `file`, each a string
IsSingleReference(m) ==
    /\ m.kind = "dict"
    /\ "name" \in ItemKeys(m) /\ ItemKeys(m) \subseteq { "name", "file" }
    /\ \A k \in DOMAIN m.items : m.items[k].value.kind = "str"

\* the reference such a value denotes
SingleReference(m) ==
    Structured(IF "file" \in ItemKeys(m)
               THEN ItemValue(m, "file").name ELSE {},
               ItemValue(m, "name").name)

\* a `materializers` value that maps output names to structured references
IsOutputMapping(m) ==
    /\ m.kind = "dict" /\ m.items # << >>
    /\ \A k \in DOMAIN m.items : m.items[k].value.kind = "dict"

\* the document resolves to the pipeline and every step source; each
\* `materializers` value is absent, one resolvable reference or a mapping
\* to resolvable references
WellFormed(doc) ==
    /\ doc.name = { "P" } /\ doc.steps # {}
    /\ \A i \in DOMAIN StepsOf(doc) :
          LET c == StepsOf(doc)[i]
              m == c.materializers
          IN  /\ c.source # {} /\ Resolvable(The(c.source))
              /\ \/ m = NoMaterializers
                 \/ IsSingleReference(m) /\ Resolvable(SingleReference(m))
                 \/ /\ IsOutputMapping(m)
                    /\ \A k \in DOMAIN m.items : Resolvable(m.items[k].value)

\* C18: a `materializers` value that is one structured source reference
\* resolves to that one materializer symbol, which is attached to the step;
\* a value that maps output names to source references resolves each entry
\* and attaches the per-output mapping.
C18_MaterializerForms ==
    (res.done /\ WellFormed(res.doc))
    => /\ res.exc = "none"
       /\ Len(res.instances) = Len(StepsOf(res.doc))
       /\ \A i \in DOMAIN res.instances :
             LET m == StepsOf(res.doc)[i].materializers
                 attached == res.instances[i].materializers
             IN  /\ IsSingleReference(m)
                    => { attached[k].symbol : k \in DOMAIN attached }
                          = { SymbolOf(SingleReference(m)) }
                 /\ IsOutputMapping(m)
                    => attached = [ k \in DOMAIN m.items |->
                                      [ output |-> m.items[k].key,
                                        symbol |-> SymbolOf(m.items[k].value) ] ]

\* the auxiliary files the structured references of the document name
ReferencedFiles(doc) ==
    UNION { LET c == StepsOf(doc)[i]
                m == c.materializers
            IN  (IF c.source # {} /\ The(c.source).kind = "dict"
                 THEN The(c.source).file ELSE {})
                \cup (IF m.kind = "dict"
                      THEN UNION { IF m.items[k].value.kind = "dict"
                                   THEN m.items[k].value.file ELSE {} :
                                   k \in DOMAIN m.items }
                      ELSE {})
            : i \in DOMAIN StepsOf(doc) }

Imports(file) ==
    { k \in EventIndexes({ "import_python_file" }) : res.events[k].file = file }

Loads(file) == { k \in EventIndexes({ "load" }) : res.events[k].file = file }

StepEvents(kinds, i) ==
    { k \in EventIndexes(kinds) : res.events[k].step = i }

StructuredFormError(text) ==
    /\ res.exc = "PipelineConfigurationError"
    /\ res.msg.kind = "structured_form"
    /\ res.msg.keys = { text }

\* the steps whose `source` is a bare string
BareSourceSteps(doc) ==
    { i \in DOMAIN StepsOf(doc) :
        /\ StepsOf(doc)[i].source # {}
        /\ The(StepsOf(doc)[i].source).kind = "str" }

\* the steps whose `materializers` value is a bare string
BareMaterializerSteps(doc) ==
    { i \in DOMAIN StepsOf(doc) : StepsOf(doc)[i].materializers.kind = "str" }

\* the steps whose `materializers` mapping gives a bare string for an output
BareOutputSteps(doc) ==
    { i \in DOMAIN StepsOf(doc) :
        LET m == StepsOf(doc)[i].materializers
        IN  /\ m.kind = "dict" /\ ~IsSingleReference(m)
            /\ \E k \in DOMAIN m.items : m.items[k].value.kind = "str" }

FailedLookups ==
    { k \in EventIndexes({ "getattr" }) :
        res.events[k].name \notin Namespace(res.events[k].file) }

\* C21: a lookup of a name (pipeline, step source or materializer) that the
\* namespace it is looked up in does not define ends resolution with a
\* ConfigurationError naming the missing attribute and the file of that
\* namespace; resolution never ends with a raw attribute-lookup fault.
C21_MissingSymbol ==
    res.done
    => /\ res.exc # "AttributeError"
       /\ \A k \in FailedLookups :
             /\ k = Len(res.events)
             /\ res.exc = "PipelineConfigurationError"
             /\ res.msg = [ kind |-> "attribute",
                            keys |-> { res.events[k].name },
                            file |-> res.events[k].file ]
       /\ res.msg.kind = "attribute" => FailedLookups # {}

C21_Witness ==
    /\ res.done
    /\ res.msg = [ kind |-> "attribute", keys |-> { "Step1" },
                   file |-> "f2.py" ]
    /\ \E k \in FailedLookups : res.events[k].step = 2
    /\ \E k \in EventIndexes({ "with_return_materializers" }) :
          res.events[k].step = 1

\* C22: when resolution raises a ConfigurationError, at whatever step or
\* materializer of the document, the pipeline symbol has not been
\* instantiated, no configuration has been attached and the pipeline has
\* not been run.
C22_NoAssemblyAfterError ==
    (res.done /\ res.exc = "PipelineConfigurationError") => NeverRun

C22_Witness ==
    /\ res.done /\ res.exc = "PipelineConfigurationError"
    /\ res.msg.kind = "structured_form"
    /\ StepEvents({ "instantiate" }, 2) # {}
    /\ Len(res.instances) = 1
    /\ NeverRun

\* ------------------------------------------------- submission vocabulary
CallsOf(e) == { e.calls[k] : k \in DOMAIN e.calls }

Count(e, name) == Cardinality({ k \in DOMAIN e.calls : e.calls[k] = name })

\* the experiment lookup of a scheduled submission found no experiment
LookupFailed(e) == ~e.experiment \/ e.fault[1] = "get_experiment"

\* no call raises, except that the lookup may report the experiment missing
OnlyLookupFails(e) ==
    \/ e.fault = NoFault
    \/ e.fault[1] \notin CallsOf(e)
    \/ /\ e.fault[1] = "get_experiment"
       /\ e.fault[2] \in { "ValueError", "ApiException" }

\* C23: a submission with a schedule looks the experiment named after the
\* pipeline up, creates it only if the lookup fails, then creates exactly
\* one recurring run and no one-off run; a submission without a schedule
\* creates exactly one one-off run and neither looks up nor creates an
\* experiment.
C23_RecurringOrOneOff ==
    \A i \in DOMAIN sub.log :
        LET e == sub.log[i]
        IN  /\ e.schedule
               => /\ e.oneoff = {}
                  /\ CallsOf(e) \cap { "create_run_from_pipeline_package",
                                       "wait_for_run_completion" } = {}
                  /\ "create_experiment" \in CallsOf(e) => LookupFailed(e)
                  /\ OnlyLookupFails(e)
                     => /\ e.calls =
                             << "Client", "get_experiment" >>
                             \o (IF LookupFailed(e)
                                 THEN << "create_experiment" >> ELSE << >>)
                             \o << "create_recurring_run" >>
                        /\ Cardinality(e.recurring) = 1
            /\ ~e.schedule
               => /\ e.recurring = {}
                  /\ CallsOf(e) \cap { "get_experiment", "create_experiment",
                                       "create_recurring_run" } = {}
                  /\ Count(e, "create_run_from_pipeline_package") <= 1
                  /\ OnlyLookupFails(e)
                     => /\ Count(e, "create_run_from_pipeline_package") = 1
                        /\ Cardinality(e.oneoff) = 1

C23_Witness ==
    /\ Len(sub.log) = 2
    /\ sub.log[1].schedule /\ "create_experiment" \in CallsOf(sub.log[1])
    /\ sub.log[2].schedule /\ sub.log[2].experiment
    /\ sub.log[2].calls
          = << "Client", "get_experiment", "create_recurring_run" >>
    /\ Cardinality(sub.recurring) = 2

\* the call of the submission that raised a communication failure
CommunicationFailure(e) ==
    is_HTTPError(e.fault[2]) /\ e.fault[1] \in CallsOf(e)

\* C24: a communication failure of any call of a submission (client set-up,
\* experiment lookup or creation, creation of the recurring or the one-off
\* run, waiting for completion) is caught and logged as a warning: the
\* submission makes no further call and returns without raising.
C24_CommunicationFailureIsWarning ==
    \A i \in DOMAIN sub.log :
        LET e == sub.log[i]
        IN  /\ CommunicationFailure(e)
               => /\ e.exc = "none"
                  /\ e.warned
                  /\ e.calls[Len(e.calls)] = e.fault[1]
            /\ e.warned => CommunicationFailure(e)

C24_Witness ==
    \E i \in DOMAIN sub.log :
        /\ sub.log[i].fault = << "create_recurring_run", "HTTPError" >>
        /\ "create_experiment" \in CallsOf(sub.log[i])
        /\ sub.log[i].warned /\ sub.log[i].exc = "none"
        /\ sub.experiment /\ sub.log[i].recurring = {}

CleanLocalProvision(e) ==
    /\ e.op = "provision" /\ is_local
    /\ NOT_PROVISIONED(e.before)
    /\ Returned(e) /\ NoFailure(e)

CleanResume(e) ==
    /\ e.op = "resume"
    /\ is_provisioned(e.before) /\ ~RUNNING(e.before)
    /\ NoFailure(e)

\* C27: from a provisioned state that is not RUNNING, a resume() whose
\* driver calls succeed ends in RUNNING; it starts the cluster, and then
\* waits for readiness, only if the orchestrator is local and the cluster
\* was not running, and starts the daemon, last, only if the daemon was not
\* running.
C27_ResumeStartsWhatIsStopped ==
    \A i \in DOMAIN trace :
        LET e == trace[i]
        IN  CleanResume(e)
            => /\ Returned(e)
               /\ RUNNING(e.after)
               /\ e.calls =
                     (IF is_local /\ ~is_cluster_running(e.before)
                      THEN << "start_k3d_cluster",
                              "wait_until_kubeflow_pipelines_ready" >>
                      ELSE << >>)
                     \o (IF ~is_daemon_running(e.before)
                         THEN << "start_kfp_ui_daemon" >> ELSE << >>)

C27_Witness ==
    \E i \in DOMAIN trace :
        /\ CleanResume(trace[i])
        /\ is_local /\ PARTIAL(trace[i].before)
        /\ is_cluster_running(trace[i].before)
        /\ trace[i].calls = << "start_kfp_ui_daemon" >>
        /\ RUNNING(trace[i].after)

\* a suspend() of a running backend in which no driver call failed
CleanSuspend(e) ==
    e.op = "suspend" /\ RUNNING(e.before) /\ NoFailure(e)

\* C28 (as stated): suspend() invoked in state RUNNING leaves the state
\* PROVISIONED_SUSPENDED, in local and in remote mode.
C28_SuspendEndsSuspended ==
    \A i \in DOMAIN trace :
        CleanSuspend(trace[i]) => PROVISIONED_SUSPENDED(trace[i].after)

\* C28 (amended): suspend() invoked in state RUNNING stops the daemon and,
\* in local mode only, the cluster. The state it leaves is
\* PROVISIONED_SUSPENDED exactly for a local orchestrator off win32; for a
\* remote orchestrator the cluster is untouched and still counts as
\* running, so the state is PARTIAL (RUNNING on win32, where the daemon
\* always counts as running); for a local orchestrator on win32 it is
\* PARTIAL.
C28_SuspendEndsSuspendedIfLocal ==
    \A i \in DOMAIN trace :
        LET e == trace[i]
        IN  CleanSuspend(e)
            => /\ Returned(e)
               /\ ~e.after.daemonAlive
               /\ is_local => /\ ~e.after.clusterRunning
                              /\ "stop_k3d_cluster" \in CallSet(e)
               /\ ~is_local => /\ "stop_k3d_cluster" \notin CallSet(e)
                               /\ ClusterPart(e.after) = ClusterPart(e.before)
               /\ PROVISIONED_SUSPENDED(e.after) <=> (is_local /\ ~win32)
               /\ RUNNING(e.after) <=> (~is_local /\ win32)
               /\ PARTIAL(e.after) <=> (is_local <=> win32)

C28_Witness ==
    /\ ~is_local /\ ~win32
    /\ \E i \in DOMAIN trace :
          /\ CleanSuspend(trace[i])
          /\ trace[i].before.daemonAlive
          /\ PARTIAL(trace[i].after)

IsCreationCall(c) == c \in CreationCalls

\* the steps of a local provision(), all of them
ProvisionSteps ==
    << "write_local_registry_yaml", "create_k3d_cluster",
       "deploy_kubeflow_pipelines" >>
    \o (IF artifactStoreLocal
        THEN << "add_hostpath_to_kubeflow_pipelines" >> ELSE << >>)

\* C29: a local provision() writes the registry config, creates the
\* cluster, deploys the platform and then mounts the artifact store's path,
\* in this order, each step only after the one before it succeeded; the
\* mount is made if and only if the artifact store is a local one, and
\* never before the platform deployment has succeeded.
C29_ProvisionOrder ==
    \A i \in DOMAIN trace :
        LET e == trace[i]
            steps == SelectSeq(e.calls, IsCreationCall)
        IN  (e.op = "provision" /\ steps # << >>)
            => /\ is_local
               /\ Len(steps) <= Len(ProvisionSteps)
               /\ steps = SubSeq(ProvisionSteps, 1, Len(steps))
               /\ SubSeq(e.calls, 1, Len(steps) + 1) = << "makedirs" >> \o steps
               /\ \A k \in 1 .. Len(steps) - 1 : steps[k] \notin e.failed
               /\ e.failed \cap CreationCalls = {} => steps = ProvisionSteps
               /\ "add_hostpath_to_kubeflow_pipelines" \in CallSet(e)
                  => artifactStoreLocal

C29_Witness ==
    \E i \in DOMAIN trace :
        /\ trace[i].op = "provision" /\ artifactStoreLocal
        /\ trace[i].calls = << "makedirs" >> \o ProvisionSteps
        /\ trace[i].after.mounted
        /\ Returned(trace[i])

\* C30 (as stated): after deprovision() completes, no daemon is alive and
\* the log file does not exist; the daemon stop was called only if a daemon
\* was alive and the log removed only if it existed; the bookkeeping
\* directory and the registry config are unchanged.
C30_DeprovisionStopsRunningDaemon ==
    \A i \in DOMAIN trace :
        LET e == trace[i]
        IN  (e.op = "deprovision" /\ Returned(e))
            => /\ ~e.after.daemonAlive
               /\ ~e.after.logFile
               /\ "stop_kfp_ui_daemon" \in CallSet(e) => e.before.daemonAlive
               /\ "remove_log_file" \in CallSet(e) => e.before.logFile
               /\ e.after.rootDir = e.before.rootDir
               /\ e.after.registryYaml = e.before.registryYaml

\* C30 (amended): after deprovision() completes, no daemon is alive and the
\* log file does not exist; the daemon stop is called exactly when
\* is_daemon_running was true, that is when the daemon was alive or, on
\* win32, always, and on win32 is_daemon_running is still true afterwards;
\* the log is removed only if it existed; the bookkeeping directory and the
\* registry config are unchanged.
C30_DeprovisionStopsDaemonAndLog ==
    \A i \in DOMAIN trace :
        LET e == trace[i]
        IN  (e.op = "deprovision" /\ Returned(e))
            => /\ ~e.after.daemonAlive
               /\ e.after.daemonPort = {}
               /\ ~e.after.logFile
               /\ "stop_kfp_ui_daemon" \in CallSet(e)
                  <=> (e.before.daemonAlive \/ win32)
               /\ is_daemon_running(e.after) <=> win32
               /\ Cardinality({ k \in DOMAIN e.calls :
                                  e.calls[k] = "stop_kfp_ui_daemon" }) <= 1
               /\ "remove_log_file" \in CallSet(e) <=> e.before.logFile
               /\ e.after.rootDir = e.before.rootDir
               /\ e.after.registryYaml = e.before.registryYaml

C30_Witness ==
    \E i \in DOMAIN trace :
        /\ trace[i].op = "deprovision" /\ Returned(trace[i])
        /\ trace[i].before.daemonAlive /\ trace[i].before.logFile
        /\ trace[i].before.registryYaml /\ trace[i].after.registryYaml
        /\ ~trace[i].after.clusterExists

\* the steps whose `source` is a structured reference without `name`
NamelessSourceSteps(doc) ==
    { i \in DOMAIN StepsOf(doc) :
        /\ StepsOf(doc)[i].source # {}
        /\ The(StepsOf(doc)[i].source).kind = "dict"
        /\ The(StepsOf(doc)[i].source).name = {} }

\* C31: a step reached with a structured source reference that lacks the
\* `name` field makes resolution fail with a ConfigurationError identifying
\* the missing key; resolution never ends with a raw key-lookup fault.
C31_MissingNameIsConfigurationError ==
    res.done
    => /\ res.exc # "KeyError"
       /\ \A i \in NamelessSourceSteps(res.doc) :
             StepEvents({ "key_check" }, i) # {}
             => /\ res.exc = "PipelineConfigurationError"
                /\ "name" \in res.msg.keys

\* a `materializers` value that is neither a source reference nor a mapping
\* of output names to source references: a list, or a mapping without
\* entries
OtherShape(m) ==
    \/ m.kind = "list"
    \/ m.kind = "dict" /\ m.items = << >>

\* the steps whose `materializers` value has such a shape
OtherShapeSteps(doc) ==
    { i \in DOMAIN StepsOf(doc) : OtherShape(StepsOf(doc)[i].materializers) }

\* C32: a step instantiated with a `materializers` value of another shape
\* than a source reference or a mapping of output names to source
\* references (a list, an empty list, an empty mapping) makes resolution
\* fail with a ConfigurationError; the step is never bound with the value
\* ignored and the pipeline is never run.
C32_OtherShapeNeverIgnored ==
    res.done
    => \A i \in OtherShapeSteps(res.doc) :
          StepEvents({ "instantiate" }, i) # {}
          => /\ res.exc = "PipelineConfigurationError"
             /\ i \notin DOMAIN res.instances
             /\ NeverRun

\* the one event of a kind, when there is exactly one
TheEvent(kind) == CHOOSE k \in EventIndexes({ kind }) : TRUE

\* C33: on successful resolution the named pipeline symbol is instantiated
\* exactly once, with one step instance per step of the document, the i-th
\* an instance of the symbol the i-th `source` names (in the base namespace
\* without `file`, in the loaded file's namespace with it), each step
\* instantiated exactly once; the configuration is then attached, once,
\* with parameter overwrite enabled, and only after that is the pipeline
\* run, exactly once, as the last thing done.
C33_AssemblyThenConfigThenRun ==
    (res.done /\ res.exc = "none")
    => /\ Cardinality(EventIndexes({ "pipeline_init" })) = 1
       /\ Cardinality(EventIndexes({ "with_config" })) = 1
       /\ Cardinality(EventIndexes({ "run" })) = 1
       /\ LET p == res.events[TheEvent("pipeline_init")]
          IN  << p.file, p.name >> = << BaseFile, The(res.doc.name) >>
       /\ res.events[TheEvent("with_config")].name
             = "overwrite_step_parameters"
       /\ DOMAIN res.instances = DOMAIN StepsOf(res.doc)
       /\ \A i \in DOMAIN StepsOf(res.doc) :
             LET ref == The(StepsOf(res.doc)[i].source)
             IN  /\ Resolvable(ref)
                 /\ res.instances[i].symbol = SymbolOf(ref)
                 /\ Cardinality(StepEvents({ "instantiate" }, i)) = 1
                 /\ \A k \in StepEvents({ "instantiate" }, i) :
                       /\ << res.events[k].file, res.events[k].name >>
                             = SymbolOf(ref)
                       /\ k < TheEvent("pipeline_init")
       /\ TheEvent("pipeline_init") < TheEvent("with_config")
       /\ TheEvent("with_config") < TheEvent("run")
       /\ TheEvent("run") = Len(res.events)

C33_Witness ==
    /\ res.done /\ res.exc = "none"
    /\ Len(res.instances) = 2
    /\ res.instances[1].symbol = << "main.py", "Step1" >>
    /\ res.instances[2].symbol = << "f2.py", "Step2" >>
    /\ TheEvent("run") = Len(res.events)

\* ------------------------------------------------- concurrency vocabulary
\* the driver calls of a name issued so far, by position
Issued(name) == { k \in DOMAIN conc.issued : conc.issued[k].call = name }

StartCalls == { "start_k3d_cluster", "start_kfp_ui_daemon" }

\* C34 (as stated): when the resume() calls are serialized, the cluster
\* start and the daemon start are each issued at most once.
C34_SerializedStartsIssuedOnce ==
    conc.serialized
    => \A name \in StartCalls : Cardinality(Issued(name)) <= 1

\* C34 (amended): resume() holds no lock: a caller issues each start at
\* most once per call, whatever the other callers do, and with interleaved
\* callers the same start can be issued by several of them. When the calls
\* are serialized a start is issued only while its target is not running:
\* each start succeeds at most once, and it is issued again only by a later
\* call after every earlier issue of it raised.
C34_SerializedStartsSucceedOnce ==
    /\ \A name \in StartCalls, c \in Callers :
          Cardinality({ k \in Issued(name) : conc.issued[k].caller = c }) <= 1
    /\ conc.serialized
       => /\ Cardinality({ c \in Callers : InProgress(c) }) <= 1
          /\ \A name \in StartCalls :
                /\ Cardinality({ k \in Issued(name) : conc.issued[k].ok }) <= 1
                /\ \A k, l \in Issued(name) : k < l => ~conc.issued[k].ok

\* two interleaved callers of resume() on a suspended local orchestrator
\* have each started the cluster and each issued the daemon start
C34_Witness ==
    /\ ~conc.serialized /\ isLocal /\ prereq
    /\ \A c \in Callers : conc.pc[c] = "returned"
    /\ Cardinality({ k \in Issued("start_k3d_cluster") : conc.issued[k].ok })
          = 2
    /\ Cardinality(Issued("start_kfp_ui_daemon")) = 2
    /\ conc.issued[1].call = "start_k3d_cluster"
    /\ conc.issued[2].call = "start_k3d_cluster"

\* provisioned, and the statuses of cluster and daemon disagree
StatusesDisagree(s) ==
    is_provisioned(s) /\ is_cluster_running(s) # is_daemon_running(s)

\* which of the four composite states the probes report for s
CompositeStates(s) ==
    (IF ~is_provisioned(s) THEN { "NOT_PROVISIONED" } ELSE {})
    \cup (IF is_running(s) THEN { "RUNNING" } ELSE {})
    \cup (IF is_suspended(s) THEN { "PROVISIONED_SUSPENDED" } ELSE {})
    \cup (IF StatusesDisagree(s) THEN { "PARTIAL" } ELSE {})

\* C35: in every reachable state exactly one of the four composite states
\* holds: is_running and is_suspended are never both true, each implies
\* is_provisioned, and a provisioned state in which the statuses of cluster
\* and daemon disagree is reported as neither running nor suspended; for a
\* remote orchestrator is_suspended is never true.
C35_ExactlyOneCompositeState ==
    /\ Cardinality(CompositeStates(Cur)) = 1
    /\ ~(is_running(Cur) /\ is_suspended(Cur))
    /\ is_running(Cur) => is_provisioned(Cur)
    /\ is_suspended(Cur) => is_provisioned(Cur)
    /\ StatusesDisagree(Cur) => ~is_running(Cur) /\ ~is_suspended(Cur)
    /\ ~isLocal => ~is_suspended(Cur)

\* a local orchestrator left with its cluster running and its daemon
\* stopped, reported as neither running nor suspended
C35_Witness ==
    /\ isLocal /\ ~win32 /\ trace # << >>
    /\ clusterRunning /\ ~daemonAlive
    /\ CompositeStates(Cur) = { "PARTIAL" }
    /\ ~is_running(Cur) /\ ~is_suspended(Cur)

\* C36: whenever provision() of a local orchestrator returns to its caller
\* without raising, the cluster of the orchestrator exists
\* (is_cluster_provisioned); an attempt that was rolled back never returns
\* normally.
C36_NormalReturnMeansProvisioned ==
    \A i \in DOMAIN trace :
        LET e == trace[i]
        IN  (e.op = "provision" /\ is_local /\ Returned(e))
            => /\ is_cluster_provisioned(e.after)
               /\ ~e.rollback

\* ------------------------------------------------- secrets vocabulary
\* the key/value pairs of the secrets labelled `name` in a project
StoredContent(store, name) ==
    { << e.id, e.payload >> : e \in { d \in store : d.group = { name } } }

\* C37: get_secret(name) returns the key/value content of exactly the
\* stored secrets whose group label equals name and leaves the project as
\* it is; it raises a RuntimeError, and returns nothing, when no stored
\* secret carries that name, in particular right after delete_secret(name);
\* it never returns an empty or partial content.
C37_GetSecretReturnsGroupOrRaises ==
    \A i \in DOMAIN gcp.log :
        LET e == gcp.log[i]
        IN  /\ e.op = "get_secret"
               => /\ e.after = e.before
                  /\ IF StoredContent(e.before, e.name) = {}
                     THEN e.exc = "RuntimeError" /\ e.result = {}
                     ELSE /\ e.exc = "none"
                          /\ e.result = StoredContent(e.before, e.name)
            /\ e.op = "delete_secret"
               => /\ e.exc = "none"
                  /\ StoredContent(e.after, e.name) = {}
                  /\ \A other \in GroupNames \ { e.name } :
                        StoredContent(e.after, other)
                           = StoredContent(e.before, other)
                  /\ (i < Len(gcp.log) /\ gcp.log[i + 1].op = "get_secret"
                      /\ gcp.log[i + 1].name = e.name)
                     => gcp.log[i + 1].exc = "RuntimeError"

\* a secret of two keys is registered beside a secret of another name,
\* deleted, and asked for
C37_Witness ==
    /\ Len(gcp.log) = MaxGcpOps
    /\ gcp.log[1].op = "register_secret" /\ gcp.log[1].name = "aws"
    /\ gcp.log[1].exc = "none" /\ Cardinality(gcp.log[1].after) = 2
    /\ gcp.log[2].op = "delete_secret" /\ gcp.log[2].name = "aws"
    /\ gcp.log[2].before # gcp.log[2].after
    /\ gcp.log[3].op = "get_secret" /\ gcp.log[3].name = "aws"
    /\ gcp.log[3].exc = "RuntimeError"
====
